---- MODULE Spec2Model ----
(***************************************************************************)
(* A model of get_usage.py: the per-account scraper fetch_usage, the       *)
(* semaphore-limited gather of main, and main's abort / alert / report /   *)
(* e-mail stages.                                                          *)
(*                                                                         *)
(* The string handling of the script (strip, split, re.sub, "in", join) is *)
(* computed character by character, not assumed.  A float is the integer   *)
(* number of hundredths.                                                   *)
(***************************************************************************)
EXTENDS Integers, Sequences, FiniteSets, TLC

(***************************************************************************)
(* Bounds of the model.                                                    *)
(***************************************************************************)
\* the largest number of configured accounts in a run
MaxAccounts == 4
\* the largest number of rows in a run that starts from given rows
MaxRows == 2
MaxParts == 2
\* the largest number of add-on cards the details page shows
MaxCards == 2
\* the latest extraction attempt at which a late field becomes readable
MaxRenderAttempt == 3

(***************************************************************************)
(* Program constants.                                                      *)
(***************************************************************************)
CONCURRENCY_LIMIT == 3
\* LOW_REMAINING_RED_GB and LOW_REMAINING_YELLOW_GB (defaults), in GB
LOW_REMAINING_RED_GB == 20
LOW_REMAINING_YELLOW_GB == 80
\* the hard-coded days-to-renewal window of the Low Balance alert
RENEWAL_WINDOW_DAYS == 20

(***************************************************************************)
(* Text helpers.                                                           *)
(***************************************************************************)
Digits == {"0", "1", "2", "3", "4", "5", "6", "7", "8", "9"}

\* the i-th character of a text
Ch(s, i) == SubSeq(s, i, i)

DigitVal(c) ==
    CASE c = "0" -> 0 [] c = "1" -> 1 [] c = "2" -> 2 [] c = "3" -> 3
      [] c = "4" -> 4 [] c = "5" -> 5 [] c = "6" -> 6 [] c = "7" -> 7
      [] c = "8" -> 8 [] OTHER -> 9

\* str.lower() on the letters the script's markers use
LowerChar(c) ==
    CASE c = "E" -> "e" [] c = "R" -> "r" [] c = "O" -> "o" [] c = "N" -> "n"
      [] c = "A" -> "a" [] c = "T" -> "t" [] c = "F" -> "f" [] c = "U" -> "u"
      [] c = "D" -> "d" [] c = "I" -> "i" [] c = "L" -> "l" [] c = "S" -> "s"
      [] c = "G" -> "g" [] c = "P" -> "p" [] c = "K" -> "k" [] c = "W" -> "w"
      [] c = "X" -> "x" [] c = "B" -> "b" [] c = "M" -> "m" [] c = "C" -> "c"
      [] OTHER -> c

RECURSIVE Lower(_)
Lower(s) == IF s = "" THEN "" ELSE LowerChar(Head(s)) \o Lower(Tail(s))

\* F(x), with x evaluated once
Bind(x, F(_)) == CHOOSE r \in {F(v) : v \in {x}} : TRUE

\* the least index >= from at which sub occurs in s, 0 when there is none
IndexFrom(s, sub, from) ==
    Bind({i \in from..(Len(s) - Len(sub) + 1) : SubSeq(s, i, i + Len(sub) - 1) = sub},
         LAMBDA hits : IF hits = {} THEN 0 ELSE CHOOSE i \in hits : \A k \in hits : i <= k)

\* Python's  sub in s
Contains(s, sub) == IndexFrom(s, sub, 1) # 0

\* str.strip(): leading and trailing blanks removed
Strip(s) ==
    Bind(s, LAMBDA v :
        Bind({i \in 1..Len(v) : Ch(v, i) # " "}, LAMBDA ink :
            IF ink = {} THEN ""
            ELSE SubSeq(v, CHOOSE i \in ink : \A k \in ink : i <= k,
                           CHOOSE i \in ink : \A k \in ink : i >= k)))

\* str.split(): the blank-separated tokens
RECURSIVE Tokens(_)
Tokens(s) ==
    Bind(Strip(s), LAMBDA t :
        Bind(IndexFrom(t, " ", 1), LAMBDA sp :
            IF t = "" THEN <<>>
            ELSE IF sp = 0 THEN <<t>>
            ELSE <<SubSeq(t, 1, sp - 1)>> \o Tokens(SubSeq(t, sp + 1, Len(t)))))

\* re.sub(r'[^\d.]', '', s)
RECURSIVE KeepNumeric(_)
KeepNumeric(s) ==
    IF s = "" THEN ""
    ELSE (IF Head(s) \in Digits \/ Head(s) = "." THEN Head(s) ELSE "")
           \o KeepNumeric(Tail(s))

RECURSIVE DigitsVal(_)
DigitsVal(s) ==
    Bind(s, LAMBDA v :
        IF v = "" THEN 0
        ELSE 10 * DigitsVal(SubSeq(v, 1, Len(v) - 1)) + DigitVal(Ch(v, Len(v))))

\* float(s) of a text of digits and dots: a ValueError unless there is a
\* digit and at most one dot.  The value is in hundredths: digits after the
\* second decimal are dropped.
FloatOk(s) ==
    /\ \E i \in 1..Len(s) : Ch(s, i) \in Digits
    /\ \A i \in 1..Len(s) : Ch(s, i) \in Digits \/ Ch(s, i) = "."
    /\ Cardinality({i \in 1..Len(s) : Ch(s, i) = "."}) <= 1

FloatVal(s) ==
    Bind(IndexFrom(s, ".", 1), LAMBDA dot :
        LET int  == IF dot = 0 THEN s ELSE SubSeq(s, 1, dot - 1)
            frac == IF dot = 0 THEN "" ELSE SubSeq(s, dot + 1, Len(s))
            f2   == SubSeq(frac \o "00", 1, 2)
        IN  100 * DigitsVal(int) + DigitsVal(f2))

\* sep.join(list)
RECURSIVE Join(_, _)
Join(list, sep) ==
    IF list = <<>> THEN ""
    ELSE IF Len(list) = 1 THEN list[1]
    ELSE list[1] \o sep \o Join(Tail(list), sep)

(***************************************************************************)
(* The literals of the script.                                             *)
(***************************************************************************)
EGP == "EGP"
SP_EGP == " EGP"
ZERO == "0"
NA == "N/A"
UNKNOWN == "Unknown"
ZERO_EGP == "0 EGP"
SEP == "; "
BALANCE_NOT_FOUND == "0 EGP (Not Found)"
NA_NO_DETAILS == "N/A (No Details)"
COST_NO_DETAILS == "0 EGP (No Details)"
DATE_NO_DETAILS == "(No Details)"
ERROR_EGP == "Error EGP"
ERROR == "Error"
PRICE_LABEL == "Price:"
DATE_LABEL == "Renewal Date:"

(***************************************************************************)
(* The state.                                                              *)
(***************************************************************************)
VARIABLES
    accounts,   \* the configured accounts, in input order
    site,       \* per account: how the portal and the engine behave for it
    slackOn,    \* SLACK_BOT_TOKEN and SLACK_CHANNEL_ID are both set
    mailOn,     \* TO_ADDRS, EMAIL_SENDER and EMAIL_PASSWORD are all set
    mpc,        \* where main() is
    browser,    \* the shared browser: "none", "open", "closed"
    semaphore,  \* the value of asyncio.Semaphore(CONCURRENCY_LIMIT)
    task,       \* per account: the state of its limited_fetch_usage task
    rows,       \* main's rows: the list asyncio.gather returned
    run         \* main's locals after the scraping phase, and what it emitted

vars == <<accounts, site, slackOn, mailOn, mpc, browser, semaphore, task, rows, run>>

N == Len(accounts)
Acc == 1..N

(***************************************************************************)
(* The environment: what the portal shows and which engine calls fail.     *)
(* site[a] names the condition of the portal and the engine for account a: *)
(*   "up"      every call succeeds, the texts are the nominal ones;        *)
(*   "low"     as "up", with a remaining quota under the red threshold;    *)
(*   "down"    the dashboard never renders;                                *)
(*   "faulty"  every engine call may fail; a call that succeeds gives the  *)
(*             nominal text;                                               *)
(*   "fields"  the balance, remaining and used reads may fail or give any  *)
(*             of the texts of Texts;                                      *)
(*   "details" the same for the "More Details" section;                    *)
(*   "cards"   the same for the reads of the add-on cards;                 *)
(*   "late"    a field may become readable only at a later attempt.        *)
(***************************************************************************)
SiteKinds == {"up", "low", "down", "faulty", "fields", "details", "cards", "late"}

T_BALANCE == "150 EGP"
T_BALANCE_ERROR == "Error"
T_REMAINING == "100"
T_REMAINING_LOW == "15"
T_REMAINING_GB == "15.5 GB"
T_BAD_FLOAT == "1.2.3"
T_USED == "40"
T_COST == "80"
T_DATE == "Renewal Date: 10-11-2026, auto"
T_DATE_WORD == "Renewal Date: soon, auto"
T_NAME == "Extra 10GB - 30 EGP / month"
T_NAME_PLAIN == "Plus"
T_PRICE == "Price: 30 EGP"
T_PRICE_EMPTY == "Price:"

\* the fields the spec gives a retry policy
Fields == {"balance", "remaining", "used", "cost"}

\* the text the page shows in a field when nothing is wrong
Nominal(k, f) ==
    CASE f = "balance"   -> T_BALANCE
      [] f = "remaining" -> IF k = "low" THEN T_REMAINING_LOW ELSE T_REMAINING
      [] f = "used"      -> T_USED
      [] f = "cost"      -> T_COST
      [] f = "date"      -> T_DATE

\* the texts a page in trouble may show in a field
Texts(f) ==
    CASE f = "balance"   -> {"", ZERO, T_BALANCE, T_BALANCE_ERROR}
      [] f = "remaining" -> {"", T_REMAINING_GB, T_BAD_FLOAT}
      [] f = "used"      -> {"", T_USED}
      [] f = "cost"      -> {"", ZERO, T_COST}
      [] f = "date"      -> {"", T_DATE, T_DATE_WORD}

\* the fields whose text varies under a site kind
Varied(k) ==
    CASE k = "fields"  -> {"balance", "remaining", "used"}
      [] k = "details" -> {"cost", "date"}
      [] OTHER -> {}

\* A read of a field: the text, and the attempt from which the element is
\* there ("ready": 1 at once, 0 never).  wait_for raises before "ready".
NeverReady == [ready |-> 0, text |-> ""]

FieldRead(a, f) ==
    LET k == site[a]
        nominal == [ready |-> 1, text |-> Nominal(k, f)]
    IN  CASE k = "faulty" -> {NeverReady, nominal}
          [] f \in Varied(k) ->
                {NeverReady} \cup {[ready |-> 1, text |-> t] : t \in Texts(f)}
          [] k = "late" /\ f \in Fields ->
                {NeverReady}
                  \cup {[ready |-> r, text |-> Nominal(k, f)] : r \in 1..MaxRenderAttempt}
          [] OTHER -> {nominal}

\* An engine call that returns nothing: "ok" or "fail" (it raised).
Call(a, c) ==
    CASE site[a] = "faulty" -> {"ok", "fail"}
      [] site[a] = "details" /\ c = "details_wait" -> {"ok", "fail"}
      [] site[a] = "down" /\ c = "dashboard" -> {"fail"}
      [] OTHER -> {"ok"}

\* locator.is_visible() in the handler of the Used block
Visible(a) ==
    CASE site[a] = "faulty" -> {"false", "raise"}
      [] site[a] = "fields" -> {"true", "false", "raise"}
      [] OTHER -> {"false"}

\* one locator strategy of "More Details": wait_for, then click
MdOutcomes(a) ==
    CASE site[a] = "faulty" -> {"ok", "wait_fail"}
      [] site[a] = "details" -> {"ok", "wait_fail", "click_fail"}
      [] OTHER -> {"ok"}

\* the "not subscribed to any bundles" banner: shown, or the wait times out
Banner(a) == IF site[a] \in {"faulty", "details"} THEN {"shown", "timeout"} ELSE {"timeout"}

\* addon_cards.count(): -1 when the call raises
CardCount(a) ==
    CASE site[a] = "faulty" -> {-1, 1}
      [] site[a] = "details" -> (-1)..MaxCards
      [] site[a] = "cards" -> 1..MaxCards
      [] OTHER -> {1}

\* one add-on card: the name read and the price read
\*   name:  "fail" (wait_for or text_content raised) or a text
\*   price: "fail" (a call raised), "none" (no Price: element) or a text
NameReads(a) ==
    CASE site[a] = "faulty" ->
            {[st |-> "fail", text |-> ""], [st |-> "ok", text |-> T_NAME]}
      [] site[a] = "cards" ->
            {[st |-> "fail", text |-> ""], [st |-> "ok", text |-> ""],
             [st |-> "ok", text |-> T_NAME], [st |-> "ok", text |-> T_NAME_PLAIN]}
      [] OTHER -> {[st |-> "ok", text |-> T_NAME]}

PriceReads(a) ==
    CASE site[a] = "faulty" ->
            {[st |-> "fail", text |-> ""], [st |-> "ok", text |-> T_PRICE]}
      [] site[a] = "cards" ->
            {[st |-> "fail", text |-> ""], [st |-> "none", text |-> ""],
             [st |-> "ok", text |-> T_PRICE], [st |-> "ok", text |-> T_PRICE_EMPTY],
             [st |-> "ok", text |-> SP_EGP]}
      [] OTHER -> {[st |-> "ok", text |-> T_PRICE]}

(***************************************************************************)
(* fetch_usage: the payloads.                                              *)
(***************************************************************************)
\* a result_payload whose add-on defaults are the plain "N/A"
DefaultPayloadPlainNA(account) ==
    [Store |-> account.store, Number |-> account.phone,
     Balance |-> BALANCE_NOT_FOUND, Remaining |-> 0, Used |-> 0,
     Addons |-> NA, AddonsPrice |-> NA,
     RenewalCost |-> COST_NO_DETAILS, RenewalDate |-> DATE_NO_DETAILS]

\* result_payload as built at the entry of fetch_usage
DefaultPayload(account) ==
    [Store |-> account.store, Number |-> account.phone,
     Balance |-> BALANCE_NOT_FOUND, Remaining |-> 0, Used |-> 0,
     Addons |-> NA_NO_DETAILS, AddonsPrice |-> NA_NO_DETAILS,
     RenewalCost |-> COST_NO_DETAILS, RenewalDate |-> DATE_NO_DETAILS]

\* critical_error_payload
CriticalPayload(account) ==
    [Store |-> account.store, Number |-> account.phone,
     Balance |-> ERROR_EGP, Remaining |-> 0, Used |-> 0,
     Addons |-> ERROR, AddonsPrice |-> ERROR,
     RenewalCost |-> ERROR_EGP, RenewalDate |-> ERROR]

\* no value yet (Python's None) where a payload is expected
NoPayload ==
    [Store |-> 0, Number |-> 0, Balance |-> "", Remaining |-> 0, Used |-> 0,
     Addons |-> "", AddonsPrice |-> "", RenewalCost |-> "", RenewalDate |-> ""]

NotRead == [ready |-> -1, text |-> ""]

\* what the engine did for this account so far, and the rank at which its
\* task finished (a history, not program state)
NoObs ==
    [balance |-> NotRead, remaining |-> NotRead, used |-> NotRead, cost |-> NotRead,
     date |-> NotRead, visible |-> "", md |-> <<>>, cards |-> <<>>,
     attempts |-> [f \in Fields |-> 0], closes |-> <<>>, finished |-> 0]

\* a task created by  limited_fetch_usage(ac, browser, semaphore)
NewTask(account) ==
    [pc |-> "queued", payload |-> DefaultPayload(account), ret |-> "none",
     context |-> "none", page |-> "none",
     md |-> 1, num_addon_cards |-> 0, i |-> 0,
     addon_names_list |-> <<>>, addon_prices_list_scraped |-> <<>>,
     result |-> NoPayload, obs |-> NoObs]

(***************************************************************************)
(* fetch_usage: the pure parts of the field blocks.                        *)
(***************************************************************************)
\* the Balance block: wait_for, text_content, split()[0], the "0" test
ScrapeBalance(p, o) ==
    IF o.ready # 1 THEN p
    ELSE LET toks == Tokens(o.text)
         IN  IF toks = <<>> THEN p      \* split()[0] raises IndexError
             ELSE LET txt == toks[1]
                      balance_val == IF txt # "" /\ txt # ZERO THEN txt ELSE ZERO
                  IN  [p EXCEPT !.Balance = balance_val \o SP_EGP]

\* a read that is tried again until the element is there, up to the third attempt
ReadFloatRetrying(o) ==
    IF o.ready \notin 1..3 THEN [ok |-> FALSE, val |-> 0]
    ELSE LET val_str == Strip(IF o.text = "" THEN ZERO ELSE o.text)
         IN  Bind(KeepNumeric(val_str), LAMBDA num :
                 IF num = "" THEN [ok |-> TRUE, val |-> 0]
                 ELSE IF FloatOk(num) THEN [ok |-> TRUE, val |-> FloatVal(num)]
                 ELSE [ok |-> FALSE, val |-> 0])

\* float(re.sub(r'[^\d.]', '', val_str) or 0.0) of the Remaining and Used blocks
ReadFloat(o) ==
    IF o.ready # 1 THEN [ok |-> FALSE, val |-> 0]
    ELSE LET val_str == Strip(IF o.text = "" THEN ZERO ELSE o.text)
         IN  Bind(KeepNumeric(val_str), LAMBDA num :
                 IF num = "" THEN [ok |-> TRUE, val |-> 0]
                 ELSE IF FloatOk(num) THEN [ok |-> TRUE, val |-> FloatVal(num)]
                 ELSE [ok |-> FALSE, val |-> 0])

\* the Renewal Cost block; the assignment after it runs on failure too
ScrapeCost(p, o) ==
    LET val == IF o.ready = 1 THEN Strip(o.text) ELSE ""
        renewal_cost_val == IF val # "" /\ val # ZERO THEN val ELSE ZERO
    IN  [p EXCEPT !.RenewalCost = renewal_cost_val \o SP_EGP]

\* the longest run of digits and dashes of s that starts at i
RECURSIVE DateRun(_, _)
DateRun(s, i) ==
    IF i <= Len(s) /\ (Ch(s, i) \in Digits \/ Ch(s, i) = "-")
    THEN Ch(s, i) \o DateRun(s, i + 1)
    ELSE ""

RECURSIVE SkipBlanks(_, _)
SkipBlanks(s, i) == IF i <= Len(s) /\ Ch(s, i) = " " THEN SkipBlanks(s, i + 1) ELSE i

\* re.search(r"Renewal Date:\s*([\d-]+)", text), else the text between the
\* label and the next comma
ExtractDate(text) ==
    Bind(IndexFrom(text, DATE_LABEL, 1), LAMBDA at :
        LET after == at + Len(DATE_LABEL)
            rest == SubSeq(text, after, Len(text))
        IN  IF at = 0 THEN ""
            ELSE Bind(DateRun(text, SkipBlanks(text, after)), LAMBDA match :
                     IF match # "" THEN match
                     ELSE Bind(IndexFrom(rest, ",", 1), LAMBDA comma :
                              Strip(IF comma = 0 THEN rest
                                    ELSE SubSeq(rest, 1, comma - 1)))))

\* the Renewal Date block; the assignment after it runs on failure too
ScrapeDate(p, o) ==
    [p EXCEPT !.RenewalDate = IF o.ready = 1 THEN ExtractDate(o.text) ELSE ""]

\* name_text_cleaned of one add-on card, before the price is cut out of it
CardName(nm) ==
    Bind(Strip(nm.text), LAMBDA text : IF nm.st = "ok" /\ text # "" THEN text ELSE NA)

\* price_text_raw of one add-on card
CardPrice(pr) ==
    Bind(Strip(pr.text), LAMBDA actual :
        Bind(IndexFrom(actual, PRICE_LABEL, 1), LAMBDA at :
            Bind(Strip(SubSeq(actual, at + Len(PRICE_LABEL), Len(actual))), LAMBDA parsed :
                IF pr.st = "ok" /\ at # 0 /\ parsed # "" THEN parsed ELSE NA)))

\* where a match of  lit1 \s* lit2 \s* ...  that starts at i ends (the index
\* after it), 0 when there is none; letters compare ignoring case
RECURSIVE MatchEnd(_, _, _)
MatchEnd(s, i, lits) ==
    IF lits = <<>> THEN i
    ELSE Bind(<<Head(lits), SkipBlanks(s, i)>>, LAMBDA m :
             LET lit == m[1]
                 j == m[2]
             IN  IF j + Len(lit) - 1 <= Len(s)
                      /\ Lower(SubSeq(s, j, j + Len(lit) - 1)) = Lower(lit)
                 THEN MatchEnd(s, j + Len(lit), Tail(lits))
                 ELSE 0)

\* re.sub(pattern, '', s, flags=re.IGNORECASE).strip() for such a pattern
\* that starts with "-"
RECURSIVE CutPattern(_, _, _)
CutPattern(s, i, lits) ==
    IF i > Len(s) THEN ""
    ELSE Bind(IF Ch(s, i) = "-" THEN MatchEnd(s, i, lits) ELSE 0, LAMBDA e :
             IF e # 0 THEN CutPattern(s, e, lits)
             ELSE Ch(s, i) \o CutPattern(s, i + 1, lits))

\* str.rstrip('- /')
RECURSIVE RStrip(_)
RStrip(s) ==
    Bind(s, LAMBDA v :
        IF v # "" /\ Ch(v, Len(v)) \in {"-", " ", "/"}
        THEN RStrip(SubSeq(v, 1, Len(v) - 1))
        ELSE v)

\* the name with a price that is repeated in it removed
CleanName(name, price) ==
    Bind(IndexFrom(price, EGP, 1), LAMBDA egp :
        Bind(KeepNumeric(SubSeq(price, 1, egp - 1)), LAMBDA price_numeric_part :
            LET month == "month"
                pat1 == <<"-", price_numeric_part, EGP, "/", month>>
                pat2 == <<"-", price_numeric_part, EGP>>
            IN  IF name # NA /\ price # NA /\ egp # 0
                   /\ price_numeric_part # "" /\ Contains(name, price_numeric_part)
                THEN Bind(Strip(CutPattern(name, 1, pat1)), LAMBDA temp1 :
                         Bind(Strip(CutPattern(temp1, 1, pat2)), LAMBDA temp2 :
                             Strip(RStrip(temp2))))
                ELSE name))

\* a pass that appends to each list only what the card gave for it
AppendCardNoPlaceholder(names, prices, nm, pr) ==
    Bind(CardPrice(pr), LAMBDA price_text_raw :
    Bind(CardName(nm), LAMBDA name_text_original :
    Bind(CleanName(name_text_original, price_text_raw), LAMBDA name_text_cleaned :
        [names  |-> IF name_text_cleaned # NA THEN Append(names, name_text_cleaned) ELSE names,
         prices |-> IF price_text_raw # NA THEN Append(prices, price_text_raw) ELSE prices])))

\* one pass of the loop over the add-on cards: the two lists after it
AppendCard(names, prices, nm, pr) ==
    Bind(CardPrice(pr), LAMBDA price_text_raw :
    Bind(CardName(nm), LAMBDA name_text_original :
    Bind(CleanName(name_text_original, price_text_raw), LAMBDA name_text_cleaned :
        IF name_text_cleaned # NA \/ price_text_raw # NA
        THEN [names  |-> Append(names, IF name_text_cleaned # NA
                                        THEN name_text_cleaned ELSE UNKNOWN),
              prices |-> Append(prices, IF price_text_raw # NA
                                        THEN price_text_raw ELSE ZERO_EGP)]
        ELSE [names |-> names, prices |-> prices])))

\* after the cards: the two joined fields (still "N/A" when none was kept)
SetAddons(p, names, prices) ==
    [p EXCEPT !.Addons = IF names # <<>> THEN Join(names, SEP) ELSE NA,
              !.AddonsPrice = IF names # <<>> THEN Join(prices, SEP) ELSE NA]

(***************************************************************************)
(* fetch_usage: control flow.  Each action is one block of awaits of the   *)
(* coroutine; tasks interleave between them.                               *)
(***************************************************************************)
NUM_LOCATORS == 2

Running(a) == mpc = "gather" /\ a \in Acc

Put(a, t) == task' = [task EXCEPT ![a] = t]

\* where the finally clause starts: page.close(), context.close(), or nothing
\* a finally block that leaves the context alone once the page was dealt with
FinallyPcPageOnly(t) ==
    IF t.page = "open" THEN "close_page" ELSE "release"

FinallyPc(t) ==
    IF t.page = "open" THEN "close_page"
    ELSE IF t.context = "open" THEN "close_context"
    ELSE "release"

\* return result_payload (line 258), also reached from the handler of the
\* "More Details" block (line 255)
ReturnPayload(t) == [t EXCEPT !.ret = "payload", !.pc = FinallyPc(t)]

\* a body whose handler lets the exception out of fetch_usage
OuterExceptRaises(t) == [t EXCEPT !.ret = "raised", !.pc = FinallyPc(t)]

\* except Exception of the whole body: return critical_error_payload
OuterExcept(t) == [t EXCEPT !.ret = "critical", !.pc = FinallyPc(t)]

\* a "More Details" block whose handler raises again
DetailsExceptRaises(t) == [t EXCEPT !.ret = "raised", !.pc = FinallyPc(t)]

\* except Exception of the "More Details" block: log, then return result_payload
DetailsExcept(t) == ReturnPayload(t)

\* an admission that does not look at the value of the semaphore
CanAcquireUnbounded(a) == \A b \in Acc : b < a => task[b].pc # "queued"

\* async with semaphore: a free slot, tasks admitted in the order they were created
CanAcquire(a) ==
    /\ semaphore > 0
    /\ \A b \in Acc : b < a => task[b].pc # "queued"

Acquire(a) ==
    /\ Running(a) /\ task[a].pc = "queued"
    /\ CanAcquire(a)
    /\ semaphore' = semaphore - 1
    /\ Put(a, [task[a] EXCEPT !.pc = "new_context"])
    /\ UNCHANGED <<accounts, site, slackOn, mailOn, mpc, browser, rows, run>>

Others == <<accounts, site, slackOn, mailOn, mpc, browser, semaphore, rows, run>>

NewContext(a) ==
    /\ Running(a) /\ task[a].pc = "new_context"
    /\ \E o \in Call(a, "new_context") :
          Put(a, IF o = "ok"
                 THEN [task[a] EXCEPT !.context = "open", !.pc = "new_page"]
                 ELSE OuterExcept(task[a]))
    /\ UNCHANGED Others

NewPage(a) ==
    /\ Running(a) /\ task[a].pc = "new_page"
    /\ \E o \in Call(a, "new_page") :
          Put(a, IF o = "ok"
                 THEN [task[a] EXCEPT !.page = "open", !.pc = "login"]
                 ELSE OuterExcept(task[a]))
    /\ UNCHANGED Others

\* goto, the fills and clicks of the login form, the network-idle wait
Login(a) ==
    /\ Running(a) /\ task[a].pc = "login"
    /\ \E o \in Call(a, "login") :
          Put(a, IF o = "ok"
                 THEN [task[a] EXCEPT !.pc = "dashboard"]
                 ELSE OuterExcept(task[a]))
    /\ UNCHANGED Others

\* wait_for_selector of the dashboard; a failure is raised again as TimeoutError
Dashboard(a) ==
    /\ Running(a) /\ task[a].pc = "dashboard"
    /\ \E o \in Call(a, "dashboard") :
          Put(a, IF o = "ok"
                 THEN [task[a] EXCEPT !.pc = "balance"]
                 ELSE OuterExcept(task[a]))
    /\ UNCHANGED Others

Tried(t, f, o) ==
    [t.obs EXCEPT ![f] = o, !.attempts[f] = @ + 1]

Balance(a) ==
    /\ Running(a) /\ task[a].pc = "balance"
    /\ \E o \in FieldRead(a, "balance") :
          Put(a, [task[a] EXCEPT !.payload = ScrapeBalance(@, o),
                                 !.obs = Tried(task[a], "balance", o),
                                 !.pc = "remaining"])
    /\ UNCHANGED Others

Remaining(a) ==
    /\ Running(a) /\ task[a].pc = "remaining"
    /\ \E o \in FieldRead(a, "remaining") :
          LET r == ReadFloat(o)
          IN  Put(a, [task[a] EXCEPT
                        !.payload.Remaining = IF r.ok THEN r.val ELSE @,
                        !.obs = Tried(task[a], "remaining", o),
                        !.pc = "used"])
    /\ UNCHANGED Others

\* the Used block; its handler calls is_visible, outside any inner try
UsedExcept(t, v) ==
    IF v = "raise" THEN OuterExcept(t) ELSE [t EXCEPT !.pc = "more_details"]

Used(a) ==
    /\ Running(a) /\ task[a].pc = "used"
    /\ \E o \in FieldRead(a, "used"), v \in Visible(a) \cup {""} :
          LET r == ReadFloat(o)
              t == [task[a] EXCEPT !.obs = [Tried(task[a], "used", o)
                                               EXCEPT !.visible = v]]
          IN  /\ (v = "") <=> r.ok
              /\ Put(a, IF r.ok
                        THEN [t EXCEPT !.payload.Used = r.val, !.pc = "more_details"]
                        ELSE UsedExcept(t, v))
    /\ UNCHANGED Others

\* a loop over the locator strategies with no break after a click
MoreDetailsNoBreak(a) ==
    /\ Running(a) /\ task[a].pc = "more_details"
    /\ \E o \in MdOutcomes(a) :
          LET t == [task[a] EXCEPT !.obs.md = Append(@, o)]
              clicked == \E j \in 1..Len(t.obs.md) : t.obs.md[j] = "ok"
          IN  Put(a, IF t.md < NUM_LOCATORS THEN [t EXCEPT !.md = @ + 1]
                     ELSE IF clicked THEN [t EXCEPT !.pc = "details_wait"]
                     ELSE ReturnPayload(t))
    /\ UNCHANGED Others

\* the locator strategies of "More Details", tried in list order
MoreDetails(a) ==
    /\ Running(a) /\ task[a].pc = "more_details"
    /\ \E o \in MdOutcomes(a) :
          LET t == [task[a] EXCEPT !.obs.md = Append(@, o)]
          IN  Put(a, IF o = "ok" THEN [t EXCEPT !.pc = "details_wait"]
                     ELSE IF t.md < NUM_LOCATORS THEN [t EXCEPT !.md = @ + 1]
                     ELSE ReturnPayload(t))
    /\ UNCHANGED Others

\* wait_for_load_state("networkidle") and the fixed wait after the click
DetailsWait(a) ==
    /\ Running(a) /\ task[a].pc = "details_wait"
    /\ \E o \in Call(a, "details_wait") :
          Put(a, IF o = "ok"
                 THEN [task[a] EXCEPT !.pc = "not_subscribed"]
                 ELSE DetailsExcept(task[a]))
    /\ UNCHANGED Others

NotSubscribed(a) ==
    /\ Running(a) /\ task[a].pc = "not_subscribed"
    /\ \E o \in Banner(a) :
          Put(a, IF o = "shown"
                 THEN [task[a] EXCEPT !.payload = SetAddons(@, <<>>, <<>>),
                                      !.pc = "renewal_cost"]
                 ELSE [task[a] EXCEPT !.pc = "count_cards"])
    /\ UNCHANGED Others

CountCards(a) ==
    /\ Running(a) /\ task[a].pc = "count_cards"
    /\ \E c \in CardCount(a) :
          Put(a, IF c < 0 THEN DetailsExcept(task[a])
                 ELSE IF c = 0
                 THEN [task[a] EXCEPT !.payload = SetAddons(@, <<>>, <<>>),
                                      !.pc = "renewal_cost"]
                 ELSE [task[a] EXCEPT !.num_addon_cards = c, !.i = 0, !.pc = "card"])
    /\ UNCHANGED Others

Card(a) ==
    /\ Running(a) /\ task[a].pc = "card"
    /\ \E nm \in NameReads(a), pr \in PriceReads(a) :
          LET t == task[a]
              l == AppendCard(t.addon_names_list, t.addon_prices_list_scraped, nm, pr)
              u == [t EXCEPT !.addon_names_list = l.names,
                             !.addon_prices_list_scraped = l.prices,
                             !.i = @ + 1,
                             !.obs.cards = Append(@, [name |-> nm, price |-> pr])]
          IN  Put(a, IF u.i < u.num_addon_cards THEN u
                     ELSE [u EXCEPT !.payload = SetAddons(@, l.names, l.prices),
                                    !.pc = "renewal_cost"])
    /\ UNCHANGED Others

RenewalCost(a) ==
    /\ Running(a) /\ task[a].pc = "renewal_cost"
    /\ \E o \in FieldRead(a, "cost") :
          Put(a, [task[a] EXCEPT !.payload = ScrapeCost(@, o),
                                 !.obs = Tried(task[a], "cost", o),
                                 !.pc = "renewal_date"])
    /\ UNCHANGED Others

RenewalDate(a) ==
    /\ Running(a) /\ task[a].pc = "renewal_date"
    /\ \E o \in FieldRead(a, "date") :
          Put(a, ReturnPayload([task[a] EXCEPT !.payload = ScrapeDate(@, o),
                                               !.obs.date = o]))
    /\ UNCHANGED Others

\* finally: page.close(), its failure swallowed
ClosePage(a) ==
    /\ Running(a) /\ task[a].pc = "close_page"
    /\ \E o \in Call(a, "page_close") :
          LET t == [task[a] EXCEPT !.page = IF o = "ok" THEN "closed" ELSE "close_failed",
                                   !.obs.closes = Append(@, "page")]
          IN  Put(a, [t EXCEPT !.pc = FinallyPc(t)])
    /\ UNCHANGED Others

\* finally: context.close(), its failure swallowed
CloseContext(a) ==
    /\ Running(a) /\ task[a].pc = "close_context"
    /\ \E o \in Call(a, "context_close") :
          Put(a, [task[a] EXCEPT !.context = IF o = "ok" THEN "closed" ELSE "close_failed",
                                 !.obs.closes = Append(@, "context"),
                                 !.pc = "release"])
    /\ UNCHANGED Others

\* the value fetch_usage hands to limited_fetch_usage
Returned(a, t) ==
    IF t.ret = "payload" THEN t.payload ELSE CriticalPayload(accounts[a])

\* how many tasks have finished
Finished == Cardinality({b \in Acc : task[b].pc \in {"done", "raised"}})

\* a return that keeps the slot of the semaphore
ReleaseKeepsSlot(a) ==
    /\ Running(a) /\ task[a].pc = "release"
    /\ Put(a, [task[a] EXCEPT !.result = Returned(a, task[a]), !.pc = "done",
                              !.obs.finished = Finished + 1])
    /\ UNCHANGED Others

\* fetch_usage returns; leaving "async with" releases the slot; the task's
\* result is kept for gather.  An exception out of fetch_usage would leave the
\* task failed ("raised") with no result.
Release(a) ==
    /\ Running(a) /\ task[a].pc = "release"
    /\ semaphore' = semaphore + 1
    /\ Put(a, IF task[a].ret = "raised"
              THEN [task[a] EXCEPT !.pc = "raised"]
              ELSE [task[a] EXCEPT !.result = Returned(a, task[a]), !.pc = "done",
                                   !.obs.finished = Finished + 1])
    /\ UNCHANGED <<accounts, site, slackOn, mailOn, mpc, browser, rows, run>>

Pipeline(a) ==
    \/ Acquire(a) \/ NewContext(a) \/ NewPage(a) \/ Login(a) \/ Dashboard(a)
    \/ Balance(a) \/ Remaining(a) \/ Used(a)
    \/ MoreDetails(a) \/ DetailsWait(a) \/ NotSubscribed(a) \/ CountCards(a) \/ Card(a)
    \/ RenewalCost(a) \/ RenewalDate(a)
    \/ ClosePage(a) \/ CloseContext(a) \/ Release(a)

(***************************************************************************)
(* The normalisation of the rows (main, lines 390-403).                    *)
(***************************************************************************)
\* str.split(';')
RECURSIVE SplitSemi(_)
SplitSemi(s) ==
    LET at == IndexFrom(s, ";", 1)
    IN  IF at = 0 THEN <<s>>
        ELSE <<SubSeq(s, 1, at - 1)>> \o SplitSemi(SubSeq(s, at + 1, Len(s)))

RECURSIVE SumParts(_)
SumParts(parts) ==
    IF parts = <<>> THEN 0
    ELSE LET numeric_part == KeepNumeric(Strip(Head(parts)))
         IN  (IF numeric_part # "" /\ FloatOk(numeric_part)
              THEN FloatVal(numeric_part) ELSE 0) + SumParts(Tail(parts))

L_ERROR == "error"
L_NA == "n/a"
L_NOT_FOUND == "(not found)"
L_NO_DETAILS == "(no details)"

\* a parse that takes "n/a" anywhere in the text for the marker
parse_egp_string_na_anywhere(cost_str) ==
    LET low == Lower(cost_str)
    IN  IF Contains(low, L_ERROR) \/ Contains(low, L_NA)
           \/ Contains(low, L_NOT_FOUND) \/ Contains(low, L_NO_DETAILS)
        THEN 0
        ELSE SumParts(SplitSemi(cost_str))

parse_egp_string(cost_str) ==
    LET low == Lower(cost_str)
    IN  IF Contains(low, L_ERROR) \/ low = L_NA
           \/ Contains(low, L_NOT_FOUND) \/ Contains(low, L_NO_DETAILS)
        THEN 0
        ELSE SumParts(SplitSemi(cost_str))

\* the parts of s between dashes
RECURSIVE SplitDash(_)
SplitDash(s) ==
    LET at == IndexFrom(s, "-", 1)
    IN  IF at = 0 THEN <<s>>
        ELSE <<SubSeq(s, 1, at - 1)>> \o SplitDash(SubSeq(s, at + 1, Len(s)))

AllDigits(s) == s # "" /\ \A i \in 1..Len(s) : Ch(s, i) \in Digits

IsLeap(y) == (y % 4 = 0 /\ y % 100 # 0) \/ y % 400 = 0

DaysIn(m, y) ==
    CASE m = 2 -> IF IsLeap(y) THEN 29 ELSE 28
      [] m \in {4, 6, 9, 11} -> 30
      [] OTHER -> 31

RECURSIVE DaysBefore(_, _)
DaysBefore(m, y) == IF m <= 1 THEN 0 ELSE DaysIn(m - 1, y) + DaysBefore(m - 1, y)

\* the day number of a date (the proleptic Gregorian ordinal)
Ordinal(d, m, y) ==
    365 * (y - 1) + ((y - 1) \div 4) - ((y - 1) \div 100) + ((y - 1) \div 400)
      + DaysBefore(m, y) + d

\* pd.to_datetime(text, format='%d-%m-%Y', errors='coerce'): NaT is ok = FALSE
to_datetime(text) ==
    LET parts == SplitDash(text)
        d == DigitsVal(parts[1])
        m == DigitsVal(parts[2])
        y == DigitsVal(parts[3])
    IN  IF /\ Len(parts) = 3
           /\ \A i \in 1..3 : AllDigits(parts[i])
           /\ Len(parts[1]) <= 2 /\ Len(parts[2]) <= 2 /\ Len(parts[3]) = 4
           /\ m \in 1..12 /\ d >= 1 /\ d <= DaysIn(m, y)
        THEN [ok |-> TRUE, day |-> Ordinal(d, m, y)]
        ELSE [ok |-> FALSE, day |-> 0]

\* one row of df with its numeric columns
Normalize(row) ==
    LET cost == parse_egp_string(row.RenewalCost)
        addons == parse_egp_string(row.AddonsPrice)
    IN  [Store |-> row.Store, Number |-> row.Number,
         Balance |-> row.Balance, Addons |-> row.Addons,
         RenewalCost |-> row.RenewalCost, RenewalDate |-> row.RenewalDate,
         BalanceNumeric |-> parse_egp_string(row.Balance),
         RenewalCostNumeric |-> cost,
         AddonsPriceNumeric |-> addons,
         TotalCostNumeric |-> cost + addons,
         RenewalDateDT |-> to_datetime(row.RenewalDate),
         Remaining |-> row.Remaining, Used |-> row.Used,
         MainQuota |-> row.Remaining + row.Used]

(***************************************************************************)
(* The alert stage (main, lines 406-488).                                  *)
(***************************************************************************)
\* a message handed to send_slack_message, by what its text is made of
Msg(kind, store, number, text, n1, n2, n3) ==
    [kind |-> kind, store |-> store, number |-> number, text |-> text,
     n1 |-> n1, n2 |-> n2, n3 |-> n3, failed |-> <<>>]

\* critically failed as main counts it: Balance and Add-ons both say Error
CriticallyFailed(row) == row.Balance = ERROR_EGP /\ row.Addons = ERROR

\* critically_failed_accounts_count
CountCritical(rs) == Cardinality({i \in 1..Len(rs) : CriticallyFailed(rs[i])})

\* a mask that lets every row through
successful_scrape_mask_all(r) == TRUE

\* successful_scrape_mask of one row of df
successful_scrape_mask(r) == r.Balance # ERROR_EGP

\* successful_scrape_mask.sum()
CountSuccessful(df) == Cardinality({i \in 1..Len(df) : successful_scrape_mask(df[i])})

\* a test that takes the threshold itself for low
LowGbInclusive(r) == successful_scrape_mask(r) /\ r.Remaining <= 100 * LOW_REMAINING_RED_GB

LowGb(r) == successful_scrape_mask(r) /\ r.Remaining < 100 * LOW_REMAINING_RED_GB

LowGbMsg(r) == Msg("low_gb", r.Store, r.Number, "", r.Remaining, 0, 0)

\* a test with a window of five days
LowBalanceFiveDays(r, today) ==
    /\ successful_scrape_mask(r)
    /\ r.RenewalDateDT.ok
    /\ r.RenewalCost # ERROR_EGP
    /\ r.RenewalDateDT.day - today <= 5
    /\ r.BalanceNumeric < r.TotalCostNumeric

LowBalance(r, today) ==
    /\ successful_scrape_mask(r)
    /\ r.RenewalDateDT.ok
    /\ r.RenewalCost # ERROR_EGP
    /\ r.RenewalDateDT.day - today <= RENEWAL_WINDOW_DAYS
    /\ r.BalanceNumeric < r.TotalCostNumeric

LowBalanceMsg(r, today) ==
    Msg("low_balance", r.Store, r.Number, r.RenewalDate,
        r.RenewalDateDT.day - today, r.BalanceNumeric, r.TotalCostNumeric)

RECURSIVE GbAlerts(_)
GbAlerts(df) ==
    IF df = <<>> THEN <<>>
    ELSE (IF LowGb(Head(df)) THEN <<LowGbMsg(Head(df))>> ELSE <<>>) \o GbAlerts(Tail(df))

RECURSIVE BalanceAlerts(_, _)
BalanceAlerts(df, today) ==
    IF df = <<>> THEN <<>>
    ELSE (IF LowBalance(Head(df), today) THEN <<LowBalanceMsg(Head(df), today)>> ELSE <<>>)
           \o BalanceAlerts(Tail(df), today)

\* the order of sorted(): ":alarm_clock: ..." sorts before ":warning: ...",
\* then the account and the figures decide
KindRank(m) == IF m.kind = "low_balance" THEN 0 ELSE 1

MsgKey(m) == <<KindRank(m), m.store, m.number, m.n1, m.n2, m.n3>>

RECURSIVE KeyLess(_, _)
KeyLess(k1, k2) ==
    IF k1 = <<>> THEN FALSE
    ELSE Head(k1) < Head(k2) \/ (Head(k1) = Head(k2) /\ KeyLess(Tail(k1), Tail(k2)))

\* sorted(list(set(alerts)))
RECURSIVE Sorted(_)
Sorted(S) ==
    IF S = {} THEN <<>>
    ELSE LET m == CHOOSE x \in S : \A y \in S \ {x} : ~KeyLess(MsgKey(y), MsgKey(x))
         IN  <<m>> \o Sorted(S \ {m})

\* the alerts as gathered, a repeated text left in
all_alerts(alerts) == alerts

unique_alerts(alerts) == Sorted({alerts[i] : i \in 1..Len(alerts)})

\* datetime.now() against the 12:00 +-10 min window: before, in or after it
Phases == {"before", "in", "after"}

PhaseRank(ph) == CASE ph = "before" -> 0 [] ph = "in" -> 1 [] OTHER -> 2

\* the dates pd.Timestamp.now().normalize() may give (day numbers)
Todays == {Ordinal(7, 11, 2026), Ordinal(31, 10, 2026),
           Ordinal(21, 10, 2026), Ordinal(20, 10, 2026)}

\* the messages of the window / no-alert branches
SummaryMsg(df, low, ren) ==
    Msg("summary", 0, 0, IF mailOn THEN "mail" ELSE "",
        low, ren, Len(df) - CountSuccessful(df))

AllClearMsg == Msg("all_clear", 0, 0, "", 0, 0, 0)

\* a list that names every account, the failed and the successful alike
FailedListAll(df) == [i \in 1..Len(df) |-> <<df[i].Store, df[i].Number>>]

RECURSIVE FailedList(_)
FailedList(df) ==
    IF df = <<>> THEN <<>>
    ELSE (IF successful_scrape_mask(Head(df)) THEN <<>>
          ELSE <<<<Head(df).Store, Head(df).Number>>>>) \o FailedList(Tail(df))

MixedMsg(df) ==
    [Msg("mixed", 0, 0, "", Len(df) - CountSuccessful(df), 0, 0)
        EXCEPT !.failed = FailedList(df)]

SetupFailedMsg == Msg("script_failed", 0, 0, "", 0, 0, 0)

AllFailedMsg(n) == Msg("all_failed", 0, 0, "", n, 0, 0)

(***************************************************************************)
(* main.                                                                   *)
(***************************************************************************)
Account(k) == [store |-> k, phone |-> 100 + k]

\* main's locals after the scraping phase, and what the run handed to the
\* sinks: slack (send_slack_message calls), sleeps (the asyncio.sleep(1) calls
\* of the alert loop), mail (yag.send calls), the Excel report, its archive
\* copy and the CSV rows
NoRun ==
    [outcome |-> "", critically_failed_accounts_count |-> 0, df |-> <<>>,
     individual_alerts_to_send |-> <<>>, low_gb_alert_count |-> 0,
     renewal_low_balance_alert_count |-> 0, mode |-> "", queue |-> <<>>,
     current_date_for_alerts |-> 0,
     cost_str |-> "", total_value |-> 0, fills |-> <<>>,
     phase |-> "before", is_summary_time_window |-> FALSE, is_daily_email_time |-> FALSE,
     slack |-> <<>>, sleeps |-> 0, mail |-> <<>>, report |-> <<>>, archived |-> FALSE,
     csv |-> <<>>]

Tasks == <<accounts, site, slackOn, mailOn, semaphore, task>>

\* if not accounts: return
NoAccounts ==
    /\ mpc = "start" /\ accounts = <<>>
    /\ mpc' = "done"
    /\ run' = [run EXCEPT !.outcome = "no_accounts"]
    /\ UNCHANGED <<Tasks, browser, rows>>

\* p.chromium.launch, the semaphore, the tasks handed to gather
Launch ==
    /\ mpc = "start" /\ accounts # <<>>
    /\ \E o \in {"ok", "fail"} :
          IF o = "ok"
          THEN /\ browser' = "open"
               /\ mpc' = "gather"
          ELSE /\ browser' = "none"
               /\ mpc' = "setup_except"
    /\ UNCHANGED <<Tasks, rows, run>>

\* results collected in the order in which the tasks finished
SlotByCompletion(i) == CHOOSE a \in Acc : task[a].obs.finished = i

\* rows = await asyncio.gather(*tasks): the results in the order of the
\* tasks once all are done; the first exception of a task is raised here
Slot(i) == i

Gather ==
    /\ mpc = "gather"
    /\ IF \E a \in Acc : task[a].pc = "raised"
       THEN /\ mpc' = "setup_except"
            /\ rows' = rows
       ELSE /\ \A a \in Acc : task[a].pc = "done"
            /\ rows' = [i \in Acc |-> task[Slot(i)].result]
            /\ mpc' = "close_browser"
    /\ UNCHANGED <<Tasks, browser, run>>

\* the mail sent when the script fails or every account failed: no attachment
AlertMail(kind) == [kind |-> kind, attachment |-> FALSE, failed |-> 0]

\* a handler that alerts on Slack only
SetupExceptSlackOnly ==
    /\ mpc = "setup_except"
    /\ run' = [run EXCEPT
                 !.outcome = "script_failed",
                 !.slack = IF slackOn THEN Append(@, SetupFailedMsg) ELSE @]
    /\ mpc' = "close_browser"
    /\ UNCHANGED <<Tasks, browser, rows>>

\* except Exception of the scraping phase: a message on each configured channel, return
SetupExcept ==
    /\ mpc = "setup_except"
    /\ run' = [run EXCEPT
                 !.outcome = "script_failed",
                 !.slack = IF slackOn THEN Append(@, SetupFailedMsg) ELSE @,
                 !.mail = IF mailOn THEN Append(@, AlertMail("script_failed")) ELSE @]
    /\ mpc' = "close_browser"
    /\ UNCHANGED <<Tasks, browser, rows>>

\* finally: browser.close() when there is a browser, its failure logged
CloseBrowser ==
    /\ mpc = "close_browser"
    /\ \E o \in {"ok", "fail"} :
          browser' = IF browser = "open" /\ o = "ok" THEN "closed" ELSE browser
    /\ mpc' = IF run.outcome = "script_failed" THEN "done" ELSE "check_rows"
    /\ UNCHANGED <<Tasks, rows, run>>

\* a check that alerts when every row failed and goes on to the report
CheckRowsGoesOn ==
    /\ mpc = "check_rows"
    /\ LET count == CountCritical(rows)
       IN  IF Len(rows) > 0 /\ count = Len(rows)
           THEN /\ run' = [run EXCEPT
                             !.outcome = "all_failed",
                             !.critically_failed_accounts_count = count,
                             !.slack = IF slackOn THEN Append(@, AllFailedMsg(Len(rows))) ELSE @,
                             !.mail = IF mailOn THEN Append(@, AlertMail("all_failed")) ELSE @]
                /\ mpc' = "normalize"
           ELSE /\ run' = [run EXCEPT !.critically_failed_accounts_count = count]
                /\ mpc' = "normalize"
    /\ UNCHANGED <<Tasks, browser, rows>>

\* the count of critically failed rows, and the exit when all failed
CheckRows ==
    /\ mpc = "check_rows"
    /\ LET count == CountCritical(rows)
       IN  IF Len(rows) > 0 /\ count = Len(rows)
           THEN /\ run' = [run EXCEPT
                             !.outcome = "all_failed",
                             !.critically_failed_accounts_count = count,
                             !.slack = IF slackOn THEN Append(@, AllFailedMsg(Len(rows))) ELSE @,
                             !.mail = IF mailOn THEN Append(@, AlertMail("all_failed")) ELSE @]
                /\ mpc' = "done"
           ELSE /\ run' = [run EXCEPT !.critically_failed_accounts_count = count]
                /\ mpc' = "normalize"
    /\ UNCHANGED <<Tasks, browser, rows>>

\* df and its numeric columns
NormalizeRows ==
    /\ mpc = "normalize"
    /\ run' = [run EXCEPT !.df = [i \in 1..Len(rows) |-> Normalize(rows[i])]]
    /\ mpc' = "alerts"
    /\ UNCHANGED <<Tasks, browser, rows>>

\* a choice that lets the alerts go out one by one inside the window too
ModeAlertsFirst(in_window, alerts, df) ==
    IF alerts # <<>> THEN "individual"
    ELSE IF in_window THEN "summary"
    ELSE IF Len(df) - CountSuccessful(df) = 0 THEN "all_clear"
    ELSE "mixed"

\* a choice that never finds every account scraped
ModeNoAllClear(in_window, alerts, df) ==
    IF in_window THEN "summary"
    ELSE IF alerts # <<>> THEN "individual"
    ELSE "mixed"

\* which of the four kinds of Slack report a run outside the abort paths makes
Mode(in_window, alerts, df) ==
    IF in_window THEN "summary"
    ELSE IF alerts # <<>> THEN "individual"
    ELSE IF Len(df) - CountSuccessful(df) = 0 THEN "all_clear"
    ELSE "mixed"

\* the alerts are gathered and, unless they go out one by one, the one
\* message of the run is sent; nothing of this happens without Slack, where
\* only the time of day is noted (run.phase, which the code does not read)
Alerts ==
    /\ mpc = "alerts"
    /\ IF ~slackOn
       THEN /\ \E ph \in Phases : run' = [run EXCEPT !.phase = ph]
            /\ mpc' = "report"
       ELSE \E today \in Todays, ph \in Phases :
              LET df == run.df
                  gb == GbAlerts(df)
                  bal == BalanceAlerts(df, today)
                  alerts == gb \o bal
                  mode == Mode(ph = "in", alerts, df)
                  r == [run EXCEPT
                          !.individual_alerts_to_send = alerts,
                          !.low_gb_alert_count = Len(gb),
                          !.renewal_low_balance_alert_count = Len(bal),
                          !.current_date_for_alerts = today,
                          !.phase = ph,
                          !.is_summary_time_window = (ph = "in"),
                          !.mode = mode]
              IN  /\ run' = CASE mode = "summary" ->
                                   [r EXCEPT !.slack = Append(@, SummaryMsg(df, Len(gb), Len(bal)))]
                              [] mode = "individual" ->
                                   [r EXCEPT !.queue = unique_alerts(alerts)]
                              [] mode = "all_clear" ->
                                   [r EXCEPT !.slack = Append(@, AllClearMsg)]
                              [] OTHER ->
                                   [r EXCEPT !.slack = Append(@, MixedMsg(df))]
                  /\ mpc' = IF mode = "individual" THEN "sending" ELSE "report"
    /\ UNCHANGED <<Tasks, browser, rows>>

\* a loop over the alerts after which the all-clear message goes out as well
SendAlertThenAllClear ==
    /\ mpc = "sending"
    /\ run' = [run EXCEPT
                 !.slack = IF Len(run.queue) = 1
                           THEN Append(Append(@, Head(run.queue)), AllClearMsg)
                           ELSE Append(@, Head(run.queue)),
                 !.queue = Tail(@), !.sleeps = @ + 1]
    /\ mpc' = IF Len(run.queue) = 1 THEN "report" ELSE "sending"
    /\ UNCHANGED <<Tasks, browser, rows>>

\* for alert_msg in unique_alerts: send_slack_message(alert_msg); await asyncio.sleep(1)
SendAlert ==
    /\ mpc = "sending"
    /\ run' = [run EXCEPT !.slack = Append(@, Head(run.queue)), !.queue = Tail(@),
                          !.sleeps = @ + 1]
    /\ mpc' = IF Len(run.queue) = 1 THEN "report" ELSE "sending"
    /\ UNCHANGED <<Tasks, browser, rows>>

\* a sheet whose Total Cost leaves the add-ons out
ReportRowCostOnly(r) ==
    [Store |-> r.Store, Number |-> r.Number, Balance |-> r.BalanceNumeric,
     MainQuota |-> r.MainQuota, Remaining |-> r.Remaining, Addons |-> r.Addons,
     AddonsPrice |-> r.AddonsPriceNumeric, RenewalCost |-> r.RenewalCostNumeric,
     TotalCost |-> r.RenewalCostNumeric, RenewalDate |-> r.RenewalDate]

\* one row of df_for_excel, in final_columns
ReportRow(r) ==
    [Store |-> r.Store, Number |-> r.Number, Balance |-> r.BalanceNumeric,
     MainQuota |-> r.MainQuota, Remaining |-> r.Remaining, Addons |-> r.Addons,
     AddonsPrice |-> r.AddonsPriceNumeric, RenewalCost |-> r.RenewalCostNumeric,
     TotalCost |-> r.TotalCostNumeric, RenewalDate |-> r.RenewalDate]

\* the fill of the Balance cell: none for a row whose scraped Balance says
\* "Error EGP" or "(Not Found)", else red under the total cost, yellow at it
BalanceFill(d, row) ==
    IF Contains(row.Balance, ERROR_EGP) \/ Contains(row.Balance, "(Not Found)") THEN "none"
    ELSE IF d.BalanceNumeric < d.TotalCostNumeric THEN "red"
    ELSE IF d.BalanceNumeric = d.TotalCostNumeric THEN "yellow"
    ELSE "none"

\* the fill the two cellIs rules give a Remaining cell of the range from row
\* 2 to the last row: red under the red threshold, yellow under the yellow
RemainingFill(d) ==
    IF d.Remaining < 100 * LOW_REMAINING_RED_GB THEN "red"
    ELSE IF d.Remaining < 100 * LOW_REMAINING_YELLOW_GB THEN "yellow"
    ELSE "none"

\* a report that leaves the failed accounts out
ReportSuccessfulOnly ==
    /\ mpc = "report"
    /\ LET sheet == [i \in 1..CountSuccessful(run.df) |->
                        ReportRow(SelectSeq(run.df, successful_scrape_mask)[i])]
       IN  run' = [run EXCEPT !.report = sheet, !.archived = TRUE, !.csv = sheet]
    /\ mpc' = "email"
    /\ UNCHANGED <<Tasks, browser, rows>>

\* usage_report.xlsx, its archive copy, the rows appended to daily_reports.csv
Report ==
    /\ mpc = "report"
    /\ LET sheet == [i \in 1..Len(run.df) |-> ReportRow(run.df[i])]
           fills == [i \in 1..Len(run.df) |->
                       [Balance |-> BalanceFill(run.df[i], rows[i]),
                        Remaining |-> RemainingFill(run.df[i])]]
       IN  run' = [run EXCEPT !.report = sheet, !.fills = fills,
                              !.archived = TRUE, !.csv = sheet]
    /\ mpc' = "email"
    /\ UNCHANGED <<Tasks, browser, rows>>

\* a dispatch that mails the report in the daily window only
EmailDailyOnly ==
    /\ mpc = "email"
    /\ \E ph \in Phases :
          /\ PhaseRank(ph) >= PhaseRank(run.phase)
          /\ run' = [run EXCEPT
                       !.outcome = "reported",
                       !.phase = ph,
                       !.is_daily_email_time = (ph = "in"),
                       !.mail = IF ph = "in" /\ mailOn
                                THEN Append(@, [kind |-> "daily_report", attachment |-> TRUE,
                                                failed |-> run.critically_failed_accounts_count])
                                ELSE @]
    /\ mpc' = "done"
    /\ UNCHANGED <<Tasks, browser, rows>>

\* the report e-mail: in the daily window, or when some account failed
Email ==
    /\ mpc = "email"
    /\ \E ph \in Phases :
          /\ PhaseRank(ph) >= PhaseRank(run.phase)
          /\ LET is_daily_email_time == (ph = "in")
                 send_email_due_to_some_failures == run.critically_failed_accounts_count > 0
                 should_send_this_email == is_daily_email_time \/ send_email_due_to_some_failures
                 kind == IF is_daily_email_time THEN "daily_report" ELSE "failure_report"
             IN  run' = [run EXCEPT
                           !.outcome = "reported",
                           !.phase = ph,
                           !.is_daily_email_time = is_daily_email_time,
                           !.mail = IF should_send_this_email /\ mailOn
                                    THEN Append(@, [kind |-> kind, attachment |-> TRUE,
                                                    failed |-> run.critically_failed_accounts_count])
                                    ELSE @]
    /\ mpc' = "done"
    /\ UNCHANGED <<Tasks, browser, rows>>

Main ==
    \/ NoAccounts \/ Launch \/ Gather \/ SetupExcept \/ CloseBrowser
    \/ CheckRows \/ NormalizeRows \/ Alerts \/ SendAlert \/ Report \/ Email

(***************************************************************************)
(* The runs.                                                               *)
(***************************************************************************)
\* The conditions of the portal in the runs of main that are explored: any
\* mix of up, low and down for one or two accounts; beyond that every account
\* down, or every account but the first or but the last, and every account
\* up when they all fit under the concurrency limit.
RunKinds == {"up", "low", "down"}

RunSites(n) ==
    IF n <= 2 THEN [1..n -> RunKinds]
    ELSE {[a \in 1..n |-> IF a \in U THEN "up" ELSE "down"] :
             U \in {{}, {1}, {n}} \cup (IF n <= CONCURRENCY_LIMIT THEN {1..n} ELSE {})}

Init ==
    /\ \E n \in 0..MaxAccounts :
          /\ accounts = [k \in 1..n |-> Account(k)]
          /\ site \in RunSites(n)
          /\ slackOn \in (IF n <= 2 THEN BOOLEAN ELSE {TRUE})
          /\ mailOn \in (IF n <= 2 THEN BOOLEAN ELSE {TRUE})
    /\ mpc = "start"
    /\ browser = "none"
    /\ semaphore = CONCURRENCY_LIMIT
    /\ task = [a \in Acc |-> NewTask(accounts[a])]
    /\ rows = <<>>
    /\ run = NoRun

Next == Main \/ \E a \in 1..MaxAccounts : Pipeline(a)

Spec == Init /\ [][Next]_vars

\* the runs of main for at most one account, on a portal that is up, low or
\* down or one whose balance, remaining and used reads may fail
InitFields ==
    /\ \E n \in 0..1 :
          /\ accounts = [k \in 1..n |-> Account(k)]
          /\ site \in [1..n -> RunKinds \cup {"fields"}]
    /\ slackOn \in BOOLEAN /\ mailOn \in BOOLEAN
    /\ mpc = "start"
    /\ browser = "none"
    /\ semaphore = CONCURRENCY_LIMIT
    /\ task = [a \in Acc |-> NewTask(accounts[a])]
    /\ rows = <<>>
    /\ run = NoRun

SpecFields == InitFields /\ [][Next]_vars

\* the sites of the runs whose scraping is followed to its end: a single
\* account on a site of any kind, several accounts as in RunSites
LiveSites(n) == IF n = 1 THEN [1..n -> SiteKinds] ELSE RunSites(n)

InitLive ==
    /\ \E n \in 1..MaxAccounts :
          /\ accounts = [k \in 1..n |-> Account(k)]
          /\ site \in LiveSites(n)
    /\ slackOn = TRUE /\ mailOn = TRUE
    /\ mpc = "start"
    /\ browser = "none"
    /\ semaphore = CONCURRENCY_LIMIT
    /\ task = [a \in Acc |-> NewTask(accounts[a])]
    /\ rows = <<>>
    /\ run = NoRun

\* the scraping: the launch, the tasks, gather handing over the rows, and the
\* browser closed at the end
NextLive ==
    \/ Launch
    \/ Gather
    \/ SetupExcept
    \/ CloseBrowser
    \/ \E a \in 1..MaxAccounts : Pipeline(a)

\* the runs in which the event loop keeps running a task that can go on, and
\* every engine call returns or fails
SpecLive == InitLive /\ [][NextLive]_vars /\ WF_vars(NextLive)

\* fetch_usage alone: one account of any kind, the browser launched, main
\* waiting in gather
InitFetch ==
    /\ accounts = <<Account(1)>>
    /\ site \in [{1} -> SiteKinds]
    /\ slackOn = TRUE /\ mailOn = TRUE
    /\ mpc = "gather"
    /\ browser = "open"
    /\ semaphore = CONCURRENCY_LIMIT
    /\ task = [a \in Acc |-> NewTask(accounts[a])]
    /\ rows = <<>>
    /\ run = NoRun

NextFetch == \E a \in 1..MaxAccounts : Pipeline(a)

SpecFetch == InitFetch /\ [][NextFetch]_vars

\* main from the rows on.  The records are ones fetch_usage can return: the
\* texts are the page's, so any amount, quota, add-on list and date can be
\* in them.  Two accounts may be configured with the same name and number.
RowKinds == {"ok", "low", "edge", "undated", "nodetails", "multi", "na", "critical"}

RawRow(account, k) ==
    CASE k = "critical" -> CriticalPayload(account)
      [] k = "nodetails" -> [DefaultPayload(account) EXCEPT !.Balance = "150 EGP",
                                                              !.Remaining = 10000,
                                                              !.Used = 4000]
      [] OTHER ->
           [Store |-> account.store, Number |-> account.phone,
            Balance |-> CASE k \in {"ok", "low"} -> "150 EGP"
                          [] k = "multi" -> "120 EGP"
                          [] OTHER -> "100 EGP",
            Remaining |-> CASE k = "low" -> 1500 [] k = "edge" -> 2000 [] OTHER -> 10000,
            Used |-> 4000,
            Addons |-> IF k \in {"multi", "na"} THEN "Extra 10GB; Plus" ELSE "Extra 10GB",
            AddonsPrice |-> CASE k = "multi" -> "50 EGP; 30 EGP"
                              [] k = "na" -> "0 EGP; 50 EGP"
                              [] OTHER -> "30 EGP",
            RenewalCost |-> "80 EGP",
            RenewalDate |-> IF k = "undated" THEN "soon" ELSE "10-11-2026"]

InitReport ==
    /\ \E n \in 1..MaxRows, same \in BOOLEAN :
          /\ accounts = [k \in 1..n |-> Account(IF same THEN 1 ELSE k)]
          /\ \E kinds \in [1..n -> RowKinds] :
                rows = [i \in 1..n |-> RawRow(accounts[i], kinds[i])]
    /\ site = [a \in Acc |-> "up"]
    /\ slackOn \in BOOLEAN
    /\ mailOn \in BOOLEAN
    /\ mpc = "check_rows"
    /\ browser = "closed"
    /\ semaphore = CONCURRENCY_LIMIT
    /\ task = [a \in Acc |-> [NewTask(accounts[a]) EXCEPT
                                 !.pc = "done", !.payload = rows[a], !.result = rows[a],
                                 !.ret = IF CriticallyFailed(rows[a]) THEN "critical"
                                         ELSE "payload"]]
    /\ run = NoRun

NextReport == CheckRows \/ NormalizeRows \/ Alerts \/ SendAlert \/ Report \/ Email

SpecReport == InitReport /\ [][NextReport]_vars

(***************************************************************************)
(* parse_egp_string on its own: one call on a text of up to MaxParts parts *)
(* joined by "; ".                                                         *)
(***************************************************************************)
\* the parts a text is made of: prices, texts with no price, and the texts
\* the script writes where a value is missing
CostParts ==
    {"120 EGP", "50 EGP", "30 EGP", "12.50 EGP", "EGP", "1.2.3 EGP",
     "N/A", "n/a", "Error EGP", "0 EGP (Not Found)", "N/A (No Details)",
     "5 EGP not found"}

CostTexts ==
    {Join(ps, "; ") : ps \in UNION {[1..n -> CostParts] : n \in 1..MaxParts}}

InitParse ==
    /\ accounts = <<Account(1)>>
    /\ site = [a \in Acc |-> "up"]
    /\ slackOn = FALSE /\ mailOn = FALSE
    /\ mpc = "parse" /\ browser = "closed" /\ semaphore = CONCURRENCY_LIMIT
    /\ task = [a \in Acc |-> NewTask(accounts[a])]
    /\ rows = <<>>
    /\ \E text \in CostTexts : run = [NoRun EXCEPT !.cost_str = text]

\* one call of parse_egp_string
ParseEgp ==
    /\ mpc = "parse"
    /\ run' = [run EXCEPT !.total_value = parse_egp_string(run.cost_str),
                          !.outcome = "parsed"]
    /\ mpc' = "done"
    /\ UNCHANGED <<Tasks, browser, rows>>

NextParse == ParseEgp

SpecParse == InitParse /\ [][NextParse]_vars

(***************************************************************************)
(* The properties.                                                         *)
(*                                                                         *)
(* What Python makes of the texts the page shows, written out by hand, so  *)
(* that the properties do not rest on the operators they are about.        *)
(***************************************************************************)
BalanceOf(o) ==
    IF o.ready = 1 /\ o.text = "150 EGP" THEN "150 EGP"
    ELSE IF o.ready = 1 /\ o.text = "0" THEN "0 EGP"
    ELSE IF o.ready = 1 /\ o.text = "Error" THEN "Error EGP"
    ELSE "0 EGP (Not Found)"

FloatOf(o) ==
    IF o.ready # 1 THEN 0
    ELSE CASE o.text = "100" -> 10000
           [] o.text = "15" -> 1500
           [] o.text = "15.5 GB" -> 1550
           [] o.text = "40" -> 4000
           [] OTHER -> 0

CostOf(o) == IF o.ready = 1 /\ o.text = "80" THEN "80 EGP" ELSE "0 EGP"

IsSentinel(r) == r.Balance = "Error EGP" /\ r.Addons = "Error"

\* gather has returned the rows
Gathered ==
    /\ mpc \notin {"start", "gather", "setup_except"}
    /\ run.outcome \notin {"script_failed", "no_accounts"}

\* the tasks admitted by the semaphore that have not released it
InFlight == {a \in Acc : task[a].pc \notin {"queued", "done", "raised"}}

\* C1: fetch_usage never raises.  Whatever engine calls fail, a task never
\* ends with an exception, it has no result before it is done, and its one
\* result carries the account's Store and Number and is either the
\* critical-failure sentinel or the populated record, which is no sentinel.
C1_NeverRaises ==
    \A a \in Acc :
        LET t == task[a]
        IN  /\ t.ret # "raised" /\ t.pc # "raised"
            /\ t.pc # "done" => t.result = NoPayload
            /\ t.pc = "done" =>
                  /\ t.result.Store = accounts[a].store
                  /\ t.result.Number = accounts[a].phone
                  /\ \/ t.ret = "critical" /\ IsSentinel(t.result)
                     \/ t.ret = "payload" /\ t.result = t.payload /\ ~IsSentinel(t.result)

\* C1, its case: a login that failed, then a page and a context whose close
\* failed as well, and the sentinel is returned all the same
C1_Witness ==
    \E a \in Acc :
        /\ task[a].pc = "done" /\ task[a].ret = "critical"
        /\ task[a].page = "close_failed" /\ task[a].context = "close_failed"
        /\ IsSentinel(task[a].result)

\* C2: once gather has returned, rows has the length of accounts and rows[i]
\* is the record of accounts[i], whatever the order in which the tasks finished.
C2_OrderPreserved ==
    Gathered =>
        /\ Len(rows) = Len(accounts)
        /\ \A i \in 1..Len(accounts) :
              /\ rows[i].Number = accounts[i].phone
              /\ rows[i].Store = accounts[i].store
              /\ rows[i] = task[i].result

\* C2, its case: the rows of a run in which a later account finished first
C2_Witness ==
    /\ Gathered
    /\ \E i, j \in Acc : i < j /\ task[i].obs.finished > task[j].obs.finished
    /\ \A i \in Acc : rows[i].Number = accounts[i].phone

\* C3: at most CONCURRENCY_LIMIT tasks hold the semaphore at any time; the
\* semaphore counts the free slots and never goes below zero, so a task is
\* admitted only when a slot is free.
C3_ConcurrencyLimit ==
    /\ Cardinality(InFlight) <= 3
    /\ semaphore >= 0
    /\ semaphore = 3 - Cardinality(InFlight)

\* C3, its case: every slot taken and a further task waiting at the gate
C3_Witness ==
    /\ Cardinality(InFlight) = 3
    /\ semaphore = 0
    /\ \E a \in Acc : task[a].pc = "queued"

\* the record of account b in a run of Spec, by the condition of the portal
\* for b alone
ExpectedRecord(b) ==
    IF site[b] = "down"
    THEN [Store |-> accounts[b].store, Number |-> accounts[b].phone,
          Balance |-> "Error EGP", Remaining |-> 0, Used |-> 0,
          Addons |-> "Error", AddonsPrice |-> "Error",
          RenewalCost |-> "Error EGP", RenewalDate |-> "Error"]
    ELSE [Store |-> accounts[b].store, Number |-> accounts[b].phone,
          Balance |-> "150 EGP",
          Remaining |-> IF site[b] = "low" THEN 1500 ELSE 10000, Used |-> 4000,
          Addons |-> "Extra 10GB", AddonsPrice |-> "30 EGP",
          RenewalCost |-> "80 EGP", RenewalDate |-> "10-11-2026"]

\* C4: the failure of one account changes nothing for another.  The record of
\* an account depends on the portal's condition for that account only, every
\* task has finished when gather returns, and the handler of a setup failure
\* runs only when no task was ever started.
C4_Isolation ==
    /\ \A b \in Acc : task[b].pc = "done" => task[b].result = ExpectedRecord(b)
    /\ Gathered => \A b \in Acc : task[b].pc = "done"
    /\ (mpc = "setup_except" \/ run.outcome = "script_failed") =>
          \A b \in Acc : task[b].pc = "queued"

\* C4, its case: an account failed critically while another was in flight,
\* and the other's record is the one of a healthy account
C4_Witness ==
    /\ Gathered
    /\ \E a, b \in Acc :
          /\ site[a] = "down" /\ site[b] = "up"
          /\ task[a].obs.finished < task[b].obs.finished
          /\ IsSentinel(rows[a])
          /\ rows[b].Balance = "150 EGP" /\ rows[b].Remaining = 10000

\* C5: once the dashboard wait has succeeded (the balance read was reached),
\* no failure of the balance, remaining or used read makes the run of the
\* account critical.
C5_FieldFailureNeverCritical ==
    \A a \in Acc : task[a].obs.attempts["balance"] >= 1 => task[a].ret # "critical"

\* C5, the failing run: the used read fails, is_visible in its handler
\* raises, and the sentinel is returned for an account whose balance was read
C5_Witness ==
    \E a \in Acc :
        /\ task[a].pc = "done"
        /\ task[a].obs.balance = [ready |-> 1, text |-> "150 EGP"]
        /\ task[a].obs.used.ready = 0
        /\ task[a].obs.visible = "raise"
        /\ IsSentinel(task[a].result)

MdAllFailed(t) ==
    /\ Len(t.obs.md) = 2
    /\ \A i \in 1..Len(t.obs.md) : t.obs.md[i] \in {"wait_fail", "click_fail"}

\* C7: when every "More Details" locator fails, the run of the account goes
\* on to its end and returns the record, not the sentinel: the balance,
\* remaining and used values are the scraped ones and the add-on names,
\* add-on prices, renewal cost and renewal date are the no-details defaults.
C7_NoDetailsIsNotCritical ==
    \A a \in Acc :
        LET t == task[a]
        IN  MdAllFailed(t) =>
              /\ t.ret = "payload"
              /\ t.pc \in {"close_page", "close_context", "release", "done"}
              /\ t.payload.Balance = BalanceOf(t.obs.balance)
              /\ t.payload.Remaining = FloatOf(t.obs.remaining)
              /\ t.payload.Used = FloatOf(t.obs.used)
              /\ t.payload.Addons = "N/A (No Details)"
              /\ t.payload.AddonsPrice = "N/A (No Details)"
              /\ t.payload.RenewalCost = "0 EGP (No Details)"
              /\ t.payload.RenewalDate = "(No Details)"
              /\ t.pc = "done" => t.result = t.payload /\ ~IsSentinel(t.result)

\* C7, its case: the wait of one locator and the click of the other failed,
\* and the record returned has the scraped balance and remaining quota
C7_Witness ==
    \E a \in Acc :
        /\ task[a].pc = "done"
        /\ task[a].obs.md = <<"wait_fail", "click_fail">>
        /\ task[a].result.Balance = "150 EGP"
        /\ task[a].result.Remaining = 10000
        /\ task[a].result.RenewalDate = "(No Details)"

\* every row gather returned is the critical-failure sentinel
AllCritical == Gathered /\ \A i \in 1..Len(rows) : IsSentinel(rows[i])

\* nothing of the report was produced
NoArtifacts ==
    /\ run.report = <<>> /\ ~run.archived /\ run.csv = <<>>
    /\ \A i \in 1..Len(run.mail) : ~run.mail[i].attachment

\* C8 as the specification has it: when every record is the sentinel the run
\* ends with exactly one message in the chat sink, the urgent one, and with
\* no report artifact and no mail with an attachment.
C8_OneUrgentMessage ==
    (AllCritical /\ mpc = "done") =>
        /\ Len(run.slack) = 1
        /\ run.slack[1].kind = "all_failed"
        /\ NoArtifacts

\* C8, amended: when every record is the sentinel the run stops after the
\* check: it never reaches the alert, report or mail stages, the chat sink
\* gets the urgent message and no other, once when Slack is configured and
\* not at all when it is not, and there is no artifact and no attachment.
C8_AllFailedAborts ==
    AllCritical =>
        /\ mpc \in {"close_browser", "check_rows", "done"}
        /\ \A i \in 1..Len(run.slack) : run.slack[i].kind = "all_failed"
        /\ NoArtifacts
        /\ mpc = "done" =>
              /\ run.outcome = "all_failed"
              /\ Len(run.slack) = (IF slackOn THEN 1 ELSE 0)
              /\ slackOn => run.slack[1].n1 = Len(accounts)

\* C8, its case: two accounts, both failed, Slack configured, the run over
C8_Witness ==
    /\ AllCritical /\ mpc = "done" /\ slackOn
    /\ Len(accounts) = 2
    /\ Len(run.slack) = 1 /\ run.slack[1].kind = "all_failed"
    /\ run.report = <<>>

\* the browser could not be launched
LaunchFailed == accounts # <<>> /\ mpc # "start" /\ browser = "none"

\* C9: when the launch of the browser fails no task is ever started, there
\* are no rows, no alert of the accounts, no summary and no artifact, and the
\* handler sends the one script-failed alert on each configured channel.
C9_LaunchFailureAborts ==
    LaunchFailed =>
        /\ mpc \in {"setup_except", "close_browser", "done"}
        /\ \A a \in Acc : task[a].pc = "queued" /\ task[a].result = NoPayload
        /\ rows = <<>> /\ run.df = <<>> /\ NoArtifacts
        /\ \A i \in 1..Len(run.slack) : run.slack[i].kind = "script_failed"
        /\ \A i \in 1..Len(run.mail) : run.mail[i].kind = "script_failed"
        /\ mpc # "setup_except" =>
              /\ run.outcome = "script_failed"
              /\ Len(run.slack) = (IF slackOn THEN 1 ELSE 0)
              /\ Len(run.mail) = (IF mailOn THEN 1 ELSE 0)

\* C9, its case: the launch failed, both channels configured, the run over
C9_Witness ==
    /\ LaunchFailed /\ mpc = "done" /\ slackOn /\ mailOn
    /\ Len(run.slack) = 1 /\ run.slack[1].kind = "script_failed"
    /\ Len(run.mail) = 1 /\ run.mail[1].kind = "script_failed"

\* the reporting mode a Slack message belongs to
ModeOfKind(k) ==
    CASE k = "summary" -> "summary"
      [] k \in {"low_gb", "low_balance"} -> "individual"
      [] k = "all_clear" -> "all_clear"
      [] k = "mixed" -> "mixed"
      [] OTHER -> "abort"

\* the alert stage of a run that was not aborted has chosen its mode
PastAlerts == mpc \in {"sending", "report", "email"} \/ run.outcome = "reported"

\* C10: in a run that is not aborted, with Slack configured, one of the four
\* modes is chosen, every message sent belongs to it, at least one message
\* is sent, and a mode other than Individual sends exactly one.
C10_OneMode ==
    (slackOn /\ PastAlerts) =>
        /\ run.mode \in {"summary", "individual", "all_clear", "mixed"}
        /\ \A i \in 1..Len(run.slack) : ModeOfKind(run.slack[i].kind) = run.mode
        /\ mpc # "sending" => Len(run.slack) >= 1
        /\ run.mode # "individual" => Len(run.slack) = 1

\* C10, its case: a run outside the window with two alerts, both sent, and
\* nothing else
C10_Witness ==
    /\ slackOn /\ run.outcome = "reported"
    /\ run.mode = "individual"
    /\ Len(run.slack) = 2
    /\ \A i \in 1..2 : run.slack[i].kind = "low_gb"

\* the alert stage is over and the report stage has not read the clock yet:
\* run.phase is the time of day at which the alerts were evaluated
AlertsDone == mpc \in {"report", "email"}

\* C11 as the specification has it: inside the summary window a run that is
\* not aborted sends exactly one message, the summary, whatever the alerts
\* and the failed accounts.
C11_SummaryOnly ==
    (AlertsDone /\ run.phase = "in") =>
        Len(run.slack) = 1 /\ run.slack[1].kind = "summary"

\* C11, amended: inside the summary window a run that is not aborted sends
\* exactly one message, the summary, and no individual alert, when Slack is
\* configured, and nothing when it is not; the e-mail stage adds no message.
C11_SummaryOnlyWithSlack ==
    /\ (AlertsDone /\ run.phase = "in") =>
          IF slackOn
          THEN Len(run.slack) = 1 /\ run.slack[1].kind = "summary"
          ELSE run.slack = <<>>
    /\ (run.outcome = "reported" /\ run.is_summary_time_window) =>
          Len(run.slack) = 1 /\ run.slack[1].kind = "summary"

\* C11, its case: inside the window, an alert event and a failed account,
\* and the summary is the only message
C11_Witness ==
    /\ AlertsDone /\ run.phase = "in" /\ slackOn
    /\ Len(run.individual_alerts_to_send) >= 1
    /\ run.critically_failed_accounts_count >= 1
    /\ Len(run.slack) = 1 /\ run.slack[1].kind = "summary"

\* the alert events of the run, and the messages sent so far, as sets
AlertEvents == {run.individual_alerts_to_send[i] : i \in 1..Len(run.individual_alerts_to_send)}

Sent == {run.slack[i] : i \in 1..Len(run.slack)}

\* C12: outside the summary window, when there is an alert event, the
\* messages sent are the distinct texts of the alert events: each text is
\* sent, none twice, each by a send of its own, and each send is followed by
\* its sleep before the next one.
C12_EachAlertOnce ==
    (~run.is_summary_time_window /\ run.individual_alerts_to_send # <<>>) =>
        /\ Sent \subseteq AlertEvents
        /\ \A i, j \in 1..Len(run.slack) : i # j => run.slack[i] # run.slack[j]
        /\ run.sleeps = Len(run.slack)
        /\ Len(run.slack) + Len(run.queue) = Cardinality(AlertEvents)
        /\ mpc # "sending" => Sent = AlertEvents /\ run.queue = <<>>

\* C12, its case: two alert events with the same text, and one message
C12_Witness ==
    /\ run.outcome = "reported" /\ ~run.is_summary_time_window
    /\ Len(run.individual_alerts_to_send) = 2
    /\ run.individual_alerts_to_send[1] = run.individual_alerts_to_send[2]
    /\ Len(run.slack) = 1 /\ run.slack[1] = run.individual_alerts_to_send[1]
    /\ run.sleeps = 1

\* the amount, in hundredths, that the texts of the rows stand for, written
\* out by hand
AmountOf(text) ==
    CASE text = "150 EGP" -> 15000
      [] text = "120 EGP" -> 12000
      [] text = "100 EGP" -> 10000
      [] text = "80 EGP" -> 8000
      [] text = "30 EGP" -> 3000
      [] text = "50 EGP; 30 EGP" -> 8000
      [] text = "0 EGP; 50 EGP" -> 5000
      [] OTHER -> 0

\* a row that gives no alert on any day: the quota not under 20 GB and the
\* balance not under the cost of the renewal and the add-ons
NeverAlerts(r) ==
    /\ r.Remaining >= 2000
    /\ AmountOf(r.Balance) >= AmountOf(r.RenewalCost) + AmountOf(r.AddonsPrice)

NoSentinelRow == \A i \in 1..Len(rows) : ~IsSentinel(rows[i])

FailedAccounts == {<<rows[i].Store, rows[i].Number>> : i \in {j \in 1..Len(rows) : IsSentinel(rows[j])}}

\* a mixed-status message that names the failed accounts, each row once, and
\* no other
ListsFailed(m) ==
    /\ m.kind = "mixed"
    /\ {m.failed[j] : j \in 1..Len(m.failed)} = FailedAccounts
    /\ Len(m.failed) = Cardinality({j \in 1..Len(rows) : IsSentinel(rows[j])})
    /\ m.n1 = Len(m.failed)

SomeFailedNotAll ==
    /\ \E i \in 1..Len(rows) : IsSentinel(rows[i])
    /\ \E i \in 1..Len(rows) : ~IsSentinel(rows[i])

LowRows == {i \in 1..Len(rows) : ~IsSentinel(rows[i]) /\ rows[i].Remaining < 2000}

LowRemainingEvents ==
    {j \in 1..Len(run.individual_alerts_to_send) : run.individual_alerts_to_send[j].kind = "low_gb"}

\* the row an event is about
EventOfRow(m, i) ==
    /\ m.store = rows[i].Store
    /\ m.number = rows[i].Number
    /\ m.n1 = rows[i].Remaining

\* one Low GB event for each row under the threshold and none for any other
LowRemainingIff ==
    /\ Cardinality(LowRemainingEvents) = Cardinality(LowRows)
    /\ run.low_gb_alert_count = Cardinality(LowRows)
    /\ \A i \in LowRows : \E j \in LowRemainingEvents : EventOfRow(run.individual_alerts_to_send[j], i)
    /\ \A j \in LowRemainingEvents : \E i \in LowRows : EventOfRow(run.individual_alerts_to_send[j], i)

RenewalDay == Ordinal(10, 11, 2026)

\* the days from the day of the alerts to the renewal
DaysOut == RenewalDay - run.current_date_for_alerts

\* the windows a configuration could ask for
RenewalWindows == {5, 20}

\* the scraped rows that renew within w days with a balance under the cost
DueRows(w) ==
    {i \in 1..Len(rows) :
        /\ ~IsSentinel(rows[i])
        /\ rows[i].RenewalDate = "10-11-2026"
        /\ DaysOut <= w
        /\ AmountOf(rows[i].Balance) < AmountOf(rows[i].RenewalCost) + AmountOf(rows[i].AddonsPrice)}

RenewalEvents ==
    {j \in 1..Len(run.individual_alerts_to_send) : run.individual_alerts_to_send[j].kind = "low_balance"}

RenewalEventOfRow(m, i) ==
    /\ m.store = rows[i].Store
    /\ m.number = rows[i].Number
    /\ m.n1 = DaysOut
    /\ m.n2 = AmountOf(rows[i].Balance)
    /\ m.n3 = AmountOf(rows[i].RenewalCost) + AmountOf(rows[i].AddonsPrice)

\* one Low Balance event for each row due within w days and none for any other
RenewalIff(w) ==
    /\ Cardinality(RenewalEvents) = Cardinality(DueRows(w))
    /\ run.renewal_low_balance_alert_count = Cardinality(DueRows(w))
    /\ \A i \in DueRows(w) : \E j \in RenewalEvents : RenewalEventOfRow(run.individual_alerts_to_send[j], i)
    /\ \A j \in RenewalEvents : \E i \in DueRows(w) : RenewalEventOfRow(run.individual_alerts_to_send[j], i)

AllZero(d) ==
    /\ d.BalanceNumeric = 0 /\ d.Remaining = 0 /\ d.Used = 0
    /\ d.RenewalCostNumeric = 0 /\ d.AddonsPriceNumeric = 0
    /\ d.TotalCostNumeric = 0 /\ d.MainQuota = 0
    /\ ~d.RenewalDateDT.ok

\* an event that a scraped row accounts for
EventOfScrapedRow(m) ==
    \E k \in 1..Len(rows) :
        /\ ~IsSentinel(rows[k])
        /\ m.store = rows[k].Store /\ m.number = rows[k].Number
        /\ \/ m.kind = "low_gb" /\ m.n1 = rows[k].Remaining
           \/ m.kind = "low_balance" /\ m.n2 = AmountOf(rows[k].Balance)

\* C17: the record of a critically failed account has 0 for every figure
\* (balance, remaining, used, renewal cost, add-ons price, total cost, main
\* quota) and no renewal date, and gives no Low GB and no Low Balance alert
\* event, in the window and out of it.
C17_SentinelInert ==
    /\ \A i \in 1..Len(run.df) : IsSentinel(rows[i]) => AllZero(run.df[i])
    /\ \A j \in 1..Len(run.individual_alerts_to_send) :
          EventOfScrapedRow(run.individual_alerts_to_send[j])
    /\ run.low_gb_alert_count + run.renewal_low_balance_alert_count
          <= 2 * Cardinality({k \in 1..Len(rows) : ~IsSentinel(rows[k])})
    /\ \A j \in 1..Len(run.slack) :
          run.slack[j].kind \in {"low_gb", "low_balance"} => EventOfScrapedRow(run.slack[j])

\* C17, its case: the first account failed and the second has 15 GB left;
\* the events are all the second account's
C17_Witness ==
    /\ slackOn /\ PastAlerts
    /\ Len(rows) = 2 /\ IsSentinel(rows[1]) /\ rows[2].Remaining = 1500
    /\ rows[1].Number # rows[2].Number
    /\ AllZero(run.df[1])
    /\ run.individual_alerts_to_send # <<>>
    /\ \A j \in 1..Len(run.individual_alerts_to_send) :
          run.individual_alerts_to_send[j].number = rows[2].Number

\* the figures of row i as the texts and numbers scraped give them
QuotaOf(i) == rows[i].Remaining + rows[i].Used

TotalOf(i) == AmountOf(rows[i].RenewalCost) + AmountOf(rows[i].AddonsPrice)

\* an event whose figures are those of a row of the report
EventOfReportRow(m) ==
    \E k \in 1..Len(run.report) :
        /\ m.store = run.report[k].Store /\ m.number = run.report[k].Number
        /\ \/ m.kind = "low_gb" /\ m.n1 = run.report[k].Remaining
           \/ /\ m.kind = "low_balance"
              /\ m.n2 = run.report[k].Balance /\ m.n3 = run.report[k].TotalCost

\* C18: every normalised record, of a scraped or a failed account, has main
\* quota = remaining + used and total cost = renewal cost + add-ons price,
\* and the report holds the same figures that the alerts were decided on.
C18_DerivedFigures ==
    /\ \A i \in 1..Len(run.df) :
          /\ run.df[i].MainQuota = QuotaOf(i)
          /\ run.df[i].MainQuota = run.df[i].Remaining + run.df[i].Used
          /\ run.df[i].TotalCostNumeric = TotalOf(i)
          /\ run.df[i].TotalCostNumeric = run.df[i].RenewalCostNumeric + run.df[i].AddonsPriceNumeric
    /\ \A i \in 1..Len(run.report) :
          /\ run.report[i].MainQuota = QuotaOf(i)
          /\ run.report[i].Remaining = rows[i].Remaining
          /\ run.report[i].TotalCost = TotalOf(i)
          /\ run.report[i].RenewalCost = AmountOf(rows[i].RenewalCost)
          /\ run.report[i].AddonsPrice = AmountOf(rows[i].AddonsPrice)
          /\ run.report[i].Balance = AmountOf(rows[i].Balance)
    /\ run.report # <<>> =>
          \A j \in 1..Len(run.individual_alerts_to_send) :
              EventOfReportRow(run.individual_alerts_to_send[j])

\* C18, its case: a failed account and one with two add-ons of 50 and 30
\* and a renewal of 80; the report and the Low Balance event both have 160
C18_Witness ==
    /\ slackOn /\ Len(run.report) = 2
    /\ IsSentinel(rows[1]) /\ run.report[1].MainQuota = 0 /\ run.report[1].TotalCost = 0
    /\ rows[2].AddonsPrice = "50 EGP; 30 EGP"
    /\ run.report[2].TotalCost = 16000 /\ run.report[2].MainQuota = 14000
    /\ \E j \in 1..Len(run.individual_alerts_to_send) :
          /\ run.individual_alerts_to_send[j].kind = "low_balance"
          /\ run.individual_alerts_to_send[j].n3 = 16000

\* what a part of a text is worth, in hundredths, as float() reads what is
\* left of it: "1.2.3" is no number and "EGP" leaves nothing
PartValue(part) ==
    CASE part = "120 EGP" -> 12000
      [] part = "50 EGP" -> 5000
      [] part = "30 EGP" -> 3000
      [] part = "12.50 EGP" -> 1250
      [] part = "5 EGP not found" -> 500
      [] OTHER -> 0

\* the parts with one of the words "error", "n/a", "not found", "no details"
MarkedParts ==
    {"N/A", "n/a", "Error EGP", "0 EGP (Not Found)", "N/A (No Details)", "5 EGP not found"}

\* the parts with "error", "(not found)" or "(no details)"
StoppingParts == {"Error EGP", "0 EGP (Not Found)", "N/A (No Details)"}

\* the sequences of parts that the text is the joining of
PartsOf(text) ==
    {ps \in UNION {[1..n -> CostParts] : n \in 1..MaxParts} : Join(ps, "; ") = text}

RECURSIVE SumValues(_)
SumValues(ps) == IF ps = <<>> THEN 0 ELSE PartValue(Head(ps)) + SumValues(Tail(ps))

Parsed == run.outcome = "parsed"

\* C19 as the specification has it: parse_egp_string gives 0 for a text
\* with "error", "n/a", "not found" or "no details" anywhere in it, and for
\* any other text the sum of the numbers of its parts between semicolons.
C19_MarkersAnywhere ==
    Parsed => \A ps \in PartsOf(run.cost_str) :
        run.total_value = IF \E i \in 1..Len(ps) : ps[i] \in MarkedParts
                          THEN 0 ELSE SumValues(ps)

\* C19, amended: parse_egp_string gives 0 for a text with "error",
\* "(not found)" or "(no details)" anywhere in it and for the text that is
\* "n/a" and nothing else; for any other text it gives the sum of the
\* numbers of its parts, a part that leaves no number counting 0.
C19_ParseEgp ==
    Parsed => \A ps \in PartsOf(run.cost_str) :
        run.total_value = IF \/ \E i \in 1..Len(ps) : ps[i] \in StoppingParts
                             \/ ps \in {<<"N/A">>, <<"n/a">>}
                          THEN 0 ELSE SumValues(ps)

\* C19, its case: "N/A; 50 EGP" is read as 50
C19_Witness == Parsed /\ run.cost_str = "N/A; 50 EGP" /\ run.total_value = 5000

\* the report has been written
ReportWritten == run.archived

\* C20: whenever the report is written it has exactly one row for each
\* configured account, in the order of the accounts, and the row of a
\* critically failed account is there and is told from the row of a scraped
\* account by the word "Error" in it.
C20_OneRowPerAccount ==
    ReportWritten =>
        /\ Len(run.report) = Len(accounts)
        /\ \A i \in 1..Len(accounts) :
              /\ run.report[i].Store = accounts[i].store
              /\ run.report[i].Number = accounts[i].phone
              /\ task[i].ret = "critical" =>
                    run.report[i].Addons = "Error" /\ run.report[i].RenewalDate = "Error"
              /\ task[i].ret # "critical" =>
                    run.report[i].Addons # "Error" /\ run.report[i].RenewalDate # "Error"

\* C20, its case: of three accounts only the first was scraped; the report
\* has the three rows in order and the last two are marked
C20_Witness ==
    /\ ReportWritten /\ Len(accounts) = 3 /\ Len(run.report) = 3
    /\ task[1].ret = "payload" /\ task[2].ret = "critical" /\ task[3].ret = "critical"
    /\ run.report[1].Addons # "Error"
    /\ run.report[2].Addons = "Error" /\ run.report[3].Addons = "Error"
    /\ \A i \in 1..3 : run.report[i].Number = accounts[i].phone

\* the run went through to its end without an abort
Reported == run.outcome = "reported"

SomeSentinelRow == \E i \in 1..Len(rows) : IsSentinel(rows[i])

\* the e-mails that carry the report
ReportMails == {j \in 1..Len(run.mail) : run.mail[j].kind \in {"daily_report", "failure_report"}}

\* C21: in a run that is not aborted, with mail configured, the report
\* e-mail goes out at most once, with the report attached, and it goes out
\* exactly when the time of the dispatch is in the daily window or some
\* account critically failed; outside the window with no failure there is
\* no e-mail.
C21_ReportMail ==
    /\ Cardinality(ReportMails) <= 1
    /\ ~Reported => ReportMails = {}
    /\ \A j \in ReportMails : run.mail[j].attachment
    /\ (Reported /\ mailOn) =>
          /\ Len(run.mail) <= 1
          /\ Cardinality(ReportMails) = 1 <=> (run.phase = "in" \/ SomeSentinelRow)

\* C21, its case: outside the window one of two accounts failed, and the
\* failure report is mailed once
C21_Witness ==
    /\ Reported /\ mailOn /\ run.phase = "after"
    /\ Len(rows) = 2 /\ IsSentinel(rows[1]) /\ ~IsSentinel(rows[2])
    /\ Len(run.mail) = 1 /\ run.mail[1].kind = "failure_report" /\ run.mail[1].attachment

\* the summary that says the report has also been sent by e-mail
SaysMailed == \E j \in 1..Len(run.slack) : run.slack[j].kind = "summary" /\ run.slack[j].text = "mail"

\* C22 as the specification has it: the window is decided once for the run,
\* so Slack is in summary mode exactly when the e-mail stage takes the run
\* for the daily report, and a summary that says the report was e-mailed is
\* never sent in a run that, with mail configured, dispatches no e-mail.
C22_WindowDecidedOnce ==
    (Reported /\ slackOn /\ mailOn) =>
        /\ run.is_summary_time_window <=> run.is_daily_email_time
        /\ SaysMailed => ReportMails # {}

\* C22, the run that departs from it: the alerts are decided inside the
\* window and the e-mail after it, no account failed, and the summary says
\* the report was e-mailed while no e-mail went out
C22_Witness ==
    /\ Reported /\ slackOn /\ mailOn
    /\ run.is_summary_time_window /\ ~run.is_daily_email_time
    /\ NoSentinelRow
    /\ SaysMailed /\ run.mail = <<>>

\* C23 as the specification has it: no cell of the row of a critically
\* failed account, neither its Balance cell nor its Remaining cell, is
\* filled red or yellow.
C23_FailedRowsNotFilled ==
    ReportWritten =>
        \A i \in 1..Len(run.fills) :
            IsSentinel(rows[i]) =>
                run.fills[i].Balance = "none" /\ run.fills[i].Remaining = "none"

\* C23, the run that departs from it: the Remaining cell of a failed
\* account, 0 GB, is filled red while its Balance cell is left alone
C23_Witness ==
    /\ ReportWritten /\ Len(rows) = 2
    /\ IsSentinel(rows[1]) /\ ~IsSentinel(rows[2])
    /\ run.report[1].Remaining = 0
    /\ run.fills[1].Remaining = "red" /\ run.fills[1].Balance = "none"

\* where fetch_usage is once "More Details" has been clicked
DetailPcs == {"details_wait", "not_subscribed", "count_cards", "card", "renewal_cost", "renewal_date"}

\* C24: the locator strategies of "More Details" are tried in the order of
\* the list, the j-th try being the j-th strategy; the first one whose wait
\* and click both succeed ends the search, so there is one successful click
\* at most and it is the last try; a later strategy is tried only after
\* every earlier one has failed.
C24_LocatorsInOrder ==
    \A a \in Acc :
        LET t == task[a]
            md == t.obs.md
        IN  /\ Len(md) <= NUM_LOCATORS
            /\ \A j \in 1..(Len(md) - 1) : md[j] # "ok"
            /\ t.pc = "more_details" =>
                  /\ t.md = Len(md) + 1
                  /\ \A j \in 1..Len(md) : md[j] # "ok"
            /\ t.pc \in DetailPcs =>
                  /\ md # <<>> /\ md[Len(md)] = "ok"
                  /\ t.md = Len(md)

\* C24, its case: the click of the first strategy failed, the second
\* strategy was tried and succeeded, and the details are being read
C24_Witness ==
    \E a \in Acc :
        /\ task[a].pc = "renewal_cost"
        /\ task[a].obs.md = <<"click_fail", "ok">>
        /\ task[a].md = 2

\* what a card gave, by the texts the page can show in it
HasName(c) == c.name.st = "ok" /\ c.name.text # ""

HasPrice(c) == c.price.st = "ok" /\ c.price.text = "Price: 30 EGP"

KeptCard(c) == HasName(c) \/ HasPrice(c)

\* the name the list has for a card: the price cut out of it when the card
\* gave it, "Unknown" when the card gave no name
NameOfCard(c) ==
    IF ~HasName(c) THEN "Unknown"
    ELSE IF c.name.text = "Plus" THEN "Plus"
    ELSE IF HasPrice(c) THEN "Extra 10GB"
    ELSE "Extra 10GB - 30 EGP / month"

PriceOfCard(c) == IF HasPrice(c) THEN "30 EGP" ELSE "0 EGP"

\* how many parts a joined text has
Segments(text) == Len(SplitSemi(text))

\* C25: whatever cards there are and whichever of their name and price
\* reads fail, the list of names and the list of prices have the same
\* length and their i-th entries are of the same card, a card with only
\* one of the two giving a placeholder for the other and a card with
\* neither giving nothing; so Add-ons and Add-ons Price have the same
\* number of parts.
C25_NamesMatchPrices ==
    \A a \in Acc :
        LET t == task[a]
            kept == SelectSeq(t.obs.cards, KeptCard)
        IN  /\ Len(t.addon_names_list) = Len(kept)
            /\ Len(t.addon_prices_list_scraped) = Len(kept)
            /\ \A i \in 1..Len(kept) :
                  /\ t.addon_names_list[i] = NameOfCard(kept[i])
                  /\ t.addon_prices_list_scraped[i] = PriceOfCard(kept[i])
            /\ Segments(t.payload.Addons) = Segments(t.payload.AddonsPrice)
            /\ (t.pc \in {"renewal_cost", "renewal_date"} /\ kept # <<>>) =>
                  Segments(t.payload.Addons) = Len(kept)

\* C25, its case: of two cards the first gave no price and the second no
\* name, and both fields have two parts
C25_Witness ==
    \E a \in Acc :
        /\ task[a].pc = "done"
        /\ Len(task[a].obs.cards) = 2
        /\ HasName(task[a].obs.cards[1]) /\ ~HasPrice(task[a].obs.cards[1])
        /\ ~HasName(task[a].obs.cards[2]) /\ HasPrice(task[a].obs.cards[2])
        /\ task[a].result.Addons = "Extra 10GB - 30 EGP / month; Unknown"
        /\ task[a].result.AddonsPrice = "0 EGP; 30 EGP"

\* a strategy of "More Details" was clicked
Clicked(t) == \E j \in 1..Len(t.obs.md) : t.obs.md[j] = "ok"

\* C26 as the specification has it: once "More Details" has been clicked,
\* the failure of one step of the details (the network-idle wait, the
\* no-bundles check, the count of the cards, the name or the price of a
\* card) stops that step alone: the renewal cost and the renewal date are
\* still read.
C26_CostAndDateStillRead ==
    \A a \in Acc :
        (task[a].pc = "done" /\ task[a].ret = "payload" /\ Clicked(task[a])) =>
            /\ task[a].obs.cost # NotRead
            /\ task[a].obs.date # NotRead

\* C26, the run that departs from it: the click succeeded, the network-idle
\* wait or the count of the cards failed, and the record came back without
\* the cost and the date having been looked for
C26_Witness ==
    \E a \in Acc :
        /\ task[a].pc = "done" /\ task[a].ret = "payload" /\ Clicked(task[a])
        /\ task[a].obs.cost = NotRead /\ task[a].obs.date = NotRead
        /\ task[a].result.Balance = "150 EGP"
        /\ task[a].result.RenewalCost = "0 EGP (No Details)"
        /\ task[a].result.RenewalDate = "(No Details)"

\* C27 as the specification has it: for every record fetch_usage returns,
\* the record came from the critical-failure path exactly when main counts
\* it as critically failed (Balance "Error EGP" and Add-ons "Error") and
\* exactly when the mask of the alert stage leaves it out (Balance
\* "Error EGP").
C27_FailureNotionsCoincide ==
    \A a \in Acc :
        task[a].pc = "done" =>
            /\ task[a].ret = "critical" <=>
                  (task[a].result.Balance = "Error EGP" /\ task[a].result.Addons = "Error")
            /\ task[a].ret = "critical" <=> task[a].result.Balance = "Error EGP"

\* C27, the run that departs from it: the page shows "Error" where the
\* balance is, the record is returned by the ordinary path with its quota
\* and its add-ons, main does not count it as failed and the mask leaves
\* it out
C27_Witness ==
    \E a \in Acc :
        /\ task[a].pc = "done" /\ task[a].ret = "payload"
        /\ task[a].obs.balance = [ready |-> 1, text |-> "Error"]
        /\ task[a].result.Balance = "Error EGP"
        /\ task[a].result.Addons # "Error"
        /\ task[a].result.Remaining = 1550
        /\ ~CriticallyFailed(task[a].result)
        /\ ~successful_scrape_mask(Normalize(task[a].result))

\* the scraping is over: every task returned a record and gave its slot back
ScrapingOver ==
    /\ Gathered
    /\ Len(rows) = N
    /\ \A a \in Acc : task[a].pc = "done"
    /\ semaphore = CONCURRENCY_LIMIT

\* C28: when every engine call returns or fails and the tasks are scheduled
\* fairly, every queued account is admitted in the end, every pipeline ends
\* with its record, on the ordinary path or the critical one, and gives its
\* slot back, and the scraping ends with exactly N records.
C28_ScrapingTerminates == (mpc = "gather") ~> ScrapingOver

\* C28, its case: four accounts for three slots, three of them failing, and
\* the four records gathered
C28_Witness ==
    /\ ScrapingOver /\ N = 4
    /\ Cardinality({a \in Acc : task[a].ret = "critical"}) = 3
    /\ Cardinality({a \in Acc : task[a].ret = "payload"}) = 1

(***************************************************************************)
(* C29: the browsing contexts.                                             *)
(***************************************************************************)
\* the closes that the finally block of a task has attempted, as a set
Attempted(t) == {t.obs.closes[k] : k \in 1..Len(t.obs.closes)}

\* the tasks that hold a context whose close has not been attempted
OpenContexts == {a \in Acc : task[a].context = "open"}

\* the tasks that hold a context that no close has closed
UnclosedContexts == {a \in Acc : task[a].context \in {"open", "close_failed"}}

\* a task is past its finally block with its context dealt with: the close
\* of the page, if there was one, came first and the close of the context
\* was attempted whatever became of the page
ContextDealtWith(t) ==
    /\ t.context # "none" => "context" \in Attempted(t) /\ t.context # "open"
    /\ t.page # "none" => t.obs.closes = <<"page", "context">> /\ t.page # "open"
    /\ t.context = "none" => t.obs.closes = <<>> /\ t.page = "none"

ClosedInFinally ==
    \A a \in Acc : task[a].pc \in {"release", "done", "raised"} => ContextDealtWith(task[a])

\* the contexts are held by tasks that hold a slot of the semaphore
WithinSlots(S) ==
    /\ Cardinality(S) <= CONCURRENCY_LIMIT - semaphore
    /\ Cardinality(S) <= CONCURRENCY_LIMIT

AccountsOf(m) ==
    {a \in Acc : m.store = accounts[a].store /\ m.number = accounts[a].phone}

\* the element of the field came up and its text was taken from the page
WasRead(o) == o.ready = 1

\* C30: a Low GB alert is only about an account whose remaining quota was read
\* from the page, and a Low Balance alert only about one whose balance was.
C30_NoAlertOnDefault ==
    /\ \A j \in LowRemainingEvents :
          \A a \in AccountsOf(run.individual_alerts_to_send[j]) :
             WasRead(task[a].obs.remaining)
    /\ \A j \in RenewalEvents :
          \A a \in AccountsOf(run.individual_alerts_to_send[j]) :
             WasRead(task[a].obs.balance)

\* neither the balance nor the remaining quota of the only account came up,
\* the record kept the defaults of both, and both alerts were made for it
C30_Witness ==
    /\ N = 1
    /\ ~WasRead(task[1].obs.remaining) /\ ~WasRead(task[1].obs.balance)
    /\ rows # <<>>
    /\ rows[1].Remaining = 0 /\ rows[1].Balance = "0 EGP (Not Found)"
    /\ \E j \in LowRemainingEvents : 1 \in AccountsOf(run.individual_alerts_to_send[j])
    /\ \E j \in RenewalEvents : 1 \in AccountsOf(run.individual_alerts_to_send[j])
====
